---- MODULE Spec2Model ----
(***************************************************************************)
(* The workspace/page data-sync core of hub-workspace-nexus.               *)
(*                                                                         *)
(* The provider (src/src/contexts/WorkspaceContext.tsx) holds two pieces   *)
(* of React state, `workspaces` and `currentWorkspace`, and mirrors them   *)
(* against a hosted store (supabase).  A state of this module is one       *)
(* committed render of the provider together with the rows of the remote   *)
(* tables, the requests in flight and the router's location.               *)
(*                                                                         *)
(* An asynchronous operation is three steps: the part of the function      *)
(* before its `await` (named after the function), the store handling the   *)
(* request (supabase), and the continuation after the `await` (named       *)
(* ...Done).  The continuation reads the variables its closure captured    *)
(* when the operation was called (fields clw, clc of the call) and applies *)
(* functional updaters to the state as it is when it runs.                 *)
(*                                                                         *)
(* Identifiers are uuidv4() values: the n-th call yields n.  Timestamps    *)
(* are not stored: created_at order is the order of insertion, which is    *)
(* the order of the rows in the remote tables.                             *)
(***************************************************************************)
EXTENDS Integers, Sequences, FiniteSets, TLC

\* Bounds of the model.
MaxIds == 3
MaxCalls == 2
\* The workspaces and the pages of the stories about the visibility flags
MaxWorkspaces == 1
MaxPages == 1

\* `undefined` / no identifier (an optional currentPageId that is unset).
NoId == 0

Ids == 1..MaxIds
Names == {"A", "B"}
Fields == {"title", "content", "isPublic"}
Urls == {"data:image"}

\* ContentItem objects: a note and an image
ContentItems ==
    {[type |-> "note", title |-> "A", content |-> "hello"],
     [type |-> "image", title |-> "B", content |-> "data:image"]}

\* Partial<Page> objects: some of the fields, each with a new value (a field
\* is absent when it is missing or undefined; no caller passes undefined)
Updates ==
    {[f \in S |-> CASE f = "title" -> "B"
                    [] f = "content" -> "hello"
                    [] f = "isPublic" -> TRUE] : S \in SUBSET Fields}

VARIABLES
    workspaces,        \* useState<Workspace[]>
    currentWorkspace,  \* useState<Workspace | null>
    route,             \* the router's location
    pendingEffect,     \* a render was committed whose route effect has not run
    calls,             \* asynchronous operations in flight
    nextId,            \* number of uuids generated so far, plus one
    done,              \* the operation that completed in the last step, if any
    rWorkspaces,       \* remote table workspaces
    rPages,            \* remote table pages
    rAttachments,      \* remote table attachments
    variant,           \* which provider is mounted
    user,              \* useAuth().user: the identity of the session, or null
    lastPath,          \* localStorage item 'lastPath'
    beforeReload,      \* the collection as it was when the application was
                       \* last reloaded (NotRecorded when it is not recorded)
    published          \* the entities that became public in the collection,
                       \* with no request since that makes them private

vars == <<workspaces, currentWorkspace, route, pendingEffect, calls, nextId,
          done, rWorkspaces, rPages, rAttachments, variant, user, lastPath,
          beforeReload, published>>

-----------------------------------------------------------------------------
\* Sequences

Map(s, F(_)) == [i \in DOMAIN s |-> F(s[i])]

Filter(s, T(_)) == SelectSeq(s, T)

RemoveAt(s, i) == SubSeq(s, 1, i - 1) \o SubSeq(s, i + 1, Len(s))

Range(s) == {s[i] : i \in DOMAIN s}

RECURSIVE Reverse(_)
Reverse(s) == IF s = <<>> THEN <<>> ELSE Reverse(Tail(s)) \o <<Head(s)>>

\* Array.prototype.find: the first element passing the test, else `absent`.
Find(s, T(_), absent) ==
    LET hits == Filter(s, T) IN IF hits = <<>> THEN absent ELSE Head(hits)

-----------------------------------------------------------------------------
\* Types of the provider

\* currentWorkspace === null
Null == [id |-> NoId]

\* In place of a collection that is not recorded
NotRecorded == <<Null>>

\* The identities: login gives the session a user with a generated id
\* (`user-...`); the id that createWorkspace writes as the owner of a row
UserIds == {"user-1", "user-2"}
User(uid) == [id |-> uid, email |-> uid]
HardCodedUserId == "3eb91ee4-dbcc-4691-a83a-3e5c0a364f09"

Attachment(id, url, name) == [id |-> id, url |-> url, name |-> name]

Page(id, title, content, attachments) ==
    [id |-> id, title |-> title, content |-> content,
     attachments |-> attachments, isPublic |-> FALSE]

\* A workspace as createWorkspace builds it: no pages, currentPageId and
\* isPublic unset (an unset isPublic reads as false everywhere it is used).
Workspace(id, name) ==
    [id |-> id, name |-> name, pages |-> <<>>, currentPageId |-> NoId,
     isPublic |-> FALSE]

PageIds(w) == {w.pages[i].id : i \in DOMAIN w.pages}

WorkspaceIds(ws) == {ws[i].id : i \in DOMAIN ws}

\* Router locations: '/', '/workspace/:w', '/workspace/:w/page/:p'
RootRoute == [kind |-> "root", w |-> NoId, p |-> NoId]
WorkspaceRoute(w) == [kind |-> "workspace", w |-> w, p |-> NoId]
PageRoute(w, p) == [kind |-> "page", w |-> w, p |-> p]
LoginRoute == [kind |-> "login", w |-> NoId, p |-> NoId]
Routes == {RootRoute} \cup {WorkspaceRoute(w) : w \in Ids}
              \cup {PageRoute(w, p) : w \in Ids, p \in Ids}

\* An operation in flight.  op: the function; stage: "sent" (request not yet
\* handled by the store) or "replied"; ok: the reply carries no error;
\* id: the uuid the call generated; wid, pid, aid, str, upd, flag: its
\* arguments; clw, clc, clu: `workspaces`, `currentWorkspace` and `user` as
\* captured by the closure, kept only for the operations that read them;
\* data: the update object of the request or the rows of the reply;
\* failed: the workspaces whose pages a load could not fetch.
NoCall ==
    [op |-> "none", stage |-> "none", ok |-> TRUE, id |-> NoId, wid |-> NoId,
     pid |-> NoId, aid |-> NoId, str |-> "", body |-> "", upd |-> <<>>,
     flag |-> FALSE, clw |-> <<>>, clc |-> Null, clu |-> Null, data |-> <<>>,
     failed |-> {}]

\* What a promise resolves with: a string (the empty string is NoId) or
\* nothing
Returns(id) == [kind |-> "string", id |-> id]
Void == [kind |-> "void", id |-> NoId]

\* The record of a completed operation: the call, what its promise resolved
\* with, and the provider's state when the completing step began.
NoDone == [c |-> NoCall, val |-> Void, ws |-> <<>>, cw |-> Null]

Completed(c, val) ==
    [c |-> c, val |-> val, ws |-> workspaces, cw |-> currentWorkspace]

-----------------------------------------------------------------------------
\* Lookups of the provider

getWorkspaceById(ws, workspaceId) ==
    Find(ws, LAMBDA w : w.id = workspaceId, Null)

getPageById(ws, pageId) ==
    LET holders == Filter(ws, LAMBDA w : pageId \in PageIds(w))
    IN  IF holders = <<>> THEN Null
        ELSE Find(Head(holders).pages, LAMBDA p : p.id = pageId, Null)

\* A committed change of the provider's state or of the location re-renders
\* the routed page, whose effect then runs again.
Rendered(ws, cw, rt) ==
    /\ rt.kind \in {"workspace", "page"}
    /\ (ws # workspaces \/ cw # currentWorkspace \/ rt # route)

uuidv4 == nextId

CanCall == Len(calls) < MaxCalls /\ ~pendingEffect

Send(c) == Append(calls, [c EXCEPT !.stage = "sent"])

-----------------------------------------------------------------------------
\* The history of the visibility flags

\* The pages and the workspaces of the collection ws
Entities(ws) ==
    {<<"workspace", ws[i].id>> : i \in DOMAIN ws}
        \cup UNION {{<<"page", p>> : p \in PageIds(ws[i])} : i \in DOMAIN ws}

\* Those whose visibility flag is public
PublicEntities(ws) ==
    {<<"workspace", ws[i].id>> : i \in {j \in DOMAIN ws : ws[j].isPublic}}
        \cup UNION {{<<"page", ws[i].pages[k].id>> :
                        k \in {j \in DOMAIN ws[i].pages : ws[i].pages[j].isPublic}} :
                    i \in DOMAIN ws}

\* The entity that request c makes private, if it makes one private:
\* togglePagePublic and toggleWorkspacePublic with the flag false, updatePage
\* with isPublic false
MadePrivateBy(c) ==
    CASE c.op = "togglePagePublic" /\ ~c.flag -> {<<"page", c.pid>>}
      [] c.op = "toggleWorkspacePublic" /\ ~c.flag -> {<<"workspace", c.wid>>}
      [] c.op = "updatePage" /\ "isPublic" \in DOMAIN c.upd ->
            IF c.upd["isPublic"] THEN {} ELSE {<<"page", c.pid>>}
      [] OTHER -> {}

\* Every step records the entities that it makes public in the collection
\* and forgets the entity that the request it sends makes private.
Track ==
    published' =
        IF variant # "pages" THEN published
        ELSE ((published \cup (PublicEntities(workspaces')
                                  \ PublicEntities(workspaces)))
                \ (IF Len(calls') = Len(calls) + 1
                   THEN MadePrivateBy(calls'[Len(calls')]) ELSE {}))

-----------------------------------------------------------------------------
\* The store

InsertWorkspaceRow(c) ==
    [id |-> c.id, name |-> c.str, user_id |-> HardCodedUserId,
     is_public |-> FALSE]

InsertPageRow(c) ==
    [id |-> c.id, workspace_id |-> c.wid, title |-> c.str,
     content |-> c.body, is_public |-> FALSE]

\* JSON.stringify and JSON.parse of a list of attachments
JSONstringify(v) == [json |-> v]
JSONparse(text) == text.json

LegacyInsertPageRow(c) ==
    [id |-> c.id, workspaceId |-> c.wid, title |-> c.str, content |-> c.body,
     attachments |-> JSONstringify(<<>>)]

InsertAttachmentRow(c) ==
    [id |-> c.id, page_id |-> c.pid, url |-> c.body, name |-> c.str]

\* delete().eq("id", id) on workspaces; the rows of its pages and their
\* attachments go with it (ON DELETE CASCADE).
DeleteWorkspaceRows(id) ==
    LET gone == {r.id : r \in {x \in Range(rPages) : x.workspace_id = id}}
    IN  /\ rWorkspaces' = Filter(rWorkspaces, LAMBDA r : r.id # id)
        /\ rPages' = Filter(rPages, LAMBDA r : r.workspace_id # id)
        /\ rAttachments' = Filter(rAttachments, LAMBDA r : r.page_id \notin gone)

DeletePageRows(id) ==
    /\ rPages' = Filter(rPages, LAMBDA r : r.id # id)
    /\ rAttachments' = Filter(rAttachments, LAMBDA r : r.page_id # id)
    /\ UNCHANGED rWorkspaces

\* update(values).eq("id", id) on pages: the columns of `values` are written
UpdatedRow(r, values) ==
    [id |-> r.id, workspace_id |-> r.workspace_id,
     title |-> IF "title" \in DOMAIN values THEN values["title"] ELSE r.title,
     content |-> IF "content" \in DOMAIN values THEN values["content"]
                 ELSE r.content,
     is_public |-> IF "is_public" \in DOMAIN values THEN values["is_public"]
                   ELSE r.is_public]

\* from("attachments").select("*").eq("page_id", id)
AttachmentsOf(pageId, failed) ==
    IF pageId \in failed THEN <<>>
    ELSE Map(Filter(rAttachments, LAMBDA r : r.page_id = pageId),
             LAMBDA r : Attachment(r.id, r.url, r.name))

\* The effect of a request the store accepts.
Apply(c) ==
    CASE c.op = "createWorkspace" ->
            /\ rWorkspaces' = Append(rWorkspaces, InsertWorkspaceRow(c))
            /\ UNCHANGED <<rPages, rAttachments>>
      [] c.op = "renameWorkspace" ->
            /\ rWorkspaces' = Map(rWorkspaces, LAMBDA r :
                    IF r.id = c.wid THEN [r EXCEPT !.name = c.str] ELSE r)
            /\ UNCHANGED <<rPages, rAttachments>>
      [] c.op = "deleteWorkspace" -> DeleteWorkspaceRows(c.wid)
      [] c.op = "createPage" ->
            /\ rPages' = Append(rPages, InsertPageRow(c))
            /\ UNCHANGED <<rWorkspaces, rAttachments>>
      [] c.op = "updatePage" ->
            /\ rPages' = Map(rPages, LAMBDA r :
                    IF r.id = c.pid THEN UpdatedRow(r, c.data) ELSE r)
            /\ UNCHANGED <<rWorkspaces, rAttachments>>
      [] c.op = "togglePagePublic" ->
            /\ rPages' = Map(rPages, LAMBDA r :
                    IF r.id = c.pid THEN [r EXCEPT !.is_public = c.flag] ELSE r)
            /\ UNCHANGED <<rWorkspaces, rAttachments>>
      [] c.op = "toggleWorkspacePublic" ->
            /\ rWorkspaces' = Map(rWorkspaces, LAMBDA r :
                    IF r.id = c.wid THEN [r EXCEPT !.is_public = c.flag] ELSE r)
            /\ UNCHANGED <<rPages, rAttachments>>
      [] c.op = "addAttachment" ->
            /\ rAttachments' = Append(rAttachments, InsertAttachmentRow(c))
            /\ UNCHANGED <<rWorkspaces, rPages>>
      [] c.op = "removeAttachment" ->
            /\ rAttachments' = Filter(rAttachments, LAMBDA r : r.id # c.aid)
            /\ UNCHANGED <<rWorkspaces, rPages>>
      [] c.op = "deletePage" -> DeletePageRows(c.pid)
      [] c.op = "addContentItem" ->
            /\ rPages' = Append(rPages, InsertPageRow(c))
            /\ UNCHANGED <<rWorkspaces, rAttachments>>
      [] c.op = "addContentItemAttachment" ->
            /\ rAttachments' = Append(rAttachments,
                    [id |-> c.aid, page_id |-> c.id, url |-> c.upd.content,
                     name |-> c.upd.title])
            /\ UNCHANGED <<rWorkspaces, rPages>>
      [] c.op = "legacy_createWorkspace" ->
            /\ rWorkspaces' = Append(rWorkspaces, [id |-> c.id, name |-> c.str])
            /\ UNCHANGED <<rPages, rAttachments>>
      [] c.op = "legacy_createPage" ->
            /\ rPages' = Append(rPages, LegacyInsertPageRow(c))
            /\ UNCHANGED <<rWorkspaces, rAttachments>>
      [] c.op = "legacy_addAttachment" ->
            /\ rPages' = Map(rPages, LAMBDA r :
                    IF r.id = c.pid THEN [r EXCEPT !.attachments = c.data] ELSE r)
            /\ UNCHANGED <<rWorkspaces, rAttachments>>
      [] c.op = "items_deleteWorkspace" -> DeleteWorkspaceRows(c.wid)
      [] OTHER -> UNCHANGED <<rWorkspaces, rPages, rAttachments>>

\* The operations whose request reads the store, or whose reply carries
\* rows: each has steps of its own.
Queries ==
    {"fetchWorkspaces", "legacy_fetchWorkspaces", "loadWorkspaces",
     "items_createWorkspace"}

\* The store handles the request of call i and replies with or without an
\* error; a request that ends in an error changes nothing.
supabase(i) ==
    /\ i \in DOMAIN calls
    /\ calls[i].stage = "sent"
    /\ calls[i].op \notin Queries
    /\ \E ok \in BOOLEAN :
        /\ calls' = [calls EXCEPT ![i].stage = "replied", ![i].ok = ok]
        /\ IF ok THEN Apply(calls[i])
                 ELSE UNCHANGED <<rWorkspaces, rPages, rAttachments>>
    /\ done' = NoDone
    /\ UNCHANGED <<workspaces, currentWorkspace, route, pendingEffect, nextId,
                   variant, user>>
    /\ UNCHANGED <<lastPath, beforeReload>>
    /\ Track

Replied(i, op) ==
    /\ i \in DOMAIN calls
    /\ calls[i].op = op
    /\ calls[i].stage = "replied"

\* What every continuation does besides its own updates: the call leaves the
\* set of calls in flight, its promise resolves with val, and the routed page
\* re-renders when the state changed.
Finish(i, val) ==
    /\ calls' = RemoveAt(calls, i)
    /\ done' = Completed(calls[i], val)
    /\ pendingEffect' =
          (pendingEffect \/ Rendered(workspaces', currentWorkspace', route'))
    /\ UNCHANGED <<nextId, rWorkspaces, rPages, rAttachments, variant, user>>

-----------------------------------------------------------------------------
\* Workspaces

createWorkspace(name) ==
    /\ variant = "pages"
    /\ CanCall
    /\ uuidv4 \in Ids
    /\ calls' = Send([NoCall EXCEPT !.op = "createWorkspace", !.id = uuidv4,
                                    !.str = name, !.clw = workspaces])
    /\ nextId' = nextId + 1
    /\ done' = NoDone
    /\ UNCHANGED <<workspaces, currentWorkspace, route, pendingEffect,
                   rWorkspaces, rPages, rAttachments, variant, user>>
    /\ UNCHANGED <<lastPath, beforeReload>>
    /\ Track

\* selectWorkspace as a closure over `ws`: the value it hands to
\* setCurrentWorkspace.
selectWorkspaceValue(ws, id) == getWorkspaceById(ws, id)

createWorkspaceDone(i) ==
    /\ variant = "pages"
    /\ Replied(i, "createWorkspace")
    /\ LET c == calls[i] IN
        IF c.ok
        THEN /\ workspaces' = Append(workspaces, Workspace(c.id, c.str))
             \* navigateToWorkspace(newId), of the render the call was made in
             /\ currentWorkspace' = selectWorkspaceValue(c.clw, c.id)
             /\ route' = WorkspaceRoute(c.id)
        ELSE UNCHANGED <<workspaces, currentWorkspace, route>>
    /\ Finish(i, Void)
    /\ UNCHANGED <<lastPath, beforeReload>>
    /\ Track

renameWorkspace(id, newName) ==
    /\ variant = "pages"
    /\ CanCall
    /\ calls' = Send([NoCall EXCEPT !.op = "renameWorkspace", !.wid = id,
                                    !.str = newName])
    /\ done' = NoDone
    /\ UNCHANGED <<workspaces, currentWorkspace, route, pendingEffect, nextId,
                   rWorkspaces, rPages, rAttachments, variant, user>>
    /\ UNCHANGED <<lastPath, beforeReload>>
    /\ Track

renamed(ws, id, newName) ==
    Map(ws, LAMBDA w : IF w.id = id THEN [w EXCEPT !.name = newName] ELSE w)

renameWorkspaceDone(i) ==
    /\ variant = "pages"
    /\ Replied(i, "renameWorkspace")
    /\ LET c == calls[i] IN
        IF c.ok
        THEN /\ workspaces' = renamed(workspaces, c.wid, c.str)
             /\ UNCHANGED <<currentWorkspace, route>>
        ELSE UNCHANGED <<workspaces, currentWorkspace, route>>
    /\ Finish(i, Void)
    /\ UNCHANGED <<lastPath, beforeReload>>
    /\ Track

deleteWorkspace(id) ==
    /\ variant = "pages"
    /\ CanCall
    /\ calls' = Send([NoCall EXCEPT !.op = "deleteWorkspace", !.wid = id,
                                    !.clc = currentWorkspace])
    /\ done' = NoDone
    /\ UNCHANGED <<workspaces, currentWorkspace, route, pendingEffect, nextId,
                   rWorkspaces, rPages, rAttachments, variant, user>>
    /\ UNCHANGED <<lastPath, beforeReload>>
    /\ Track

\* The collection as it is, the workspace not removed
kept(ws, id) == ws

without(ws, id) == Filter(ws, LAMBDA w : w.id # id)

deleteWorkspaceDone(i) ==
    /\ variant = "pages"
    /\ Replied(i, "deleteWorkspace")
    /\ LET c == calls[i] IN
        IF c.ok
        THEN /\ workspaces' = without(workspaces, c.wid)
             /\ IF c.clc.id = c.wid
                THEN currentWorkspace' = Null /\ route' = RootRoute
                ELSE UNCHANGED <<currentWorkspace, route>>
        ELSE UNCHANGED <<workspaces, currentWorkspace, route>>
    /\ Finish(i, Void)
    /\ UNCHANGED <<lastPath, beforeReload>>
    /\ Track

\* A synchronous operation called from an event handler of the committed
\* render: its closure is the state itself.
FinishSync(op, wid, pid) ==
    /\ done' = Completed([NoCall EXCEPT !.op = op, !.wid = wid, !.pid = pid],
                         Void)
    /\ pendingEffect' = Rendered(workspaces', currentWorkspace', route')
    /\ UNCHANGED <<calls, nextId, rWorkspaces, rPages, rAttachments, variant, user>>

selectWorkspace(id) ==
    /\ variant = "pages"
    /\ ~pendingEffect
    /\ currentWorkspace' = selectWorkspaceValue(workspaces, id)
    /\ UNCHANGED <<workspaces, route>>
    /\ FinishSync("selectWorkspace", id, NoId)
    /\ UNCHANGED <<lastPath, beforeReload>>
    /\ Track

navigateToWorkspace(workspaceId) ==
    /\ variant = "pages"
    /\ ~pendingEffect
    /\ currentWorkspace' = selectWorkspaceValue(workspaces, workspaceId)
    /\ route' = WorkspaceRoute(workspaceId)
    /\ UNCHANGED workspaces
    /\ FinishSync("navigateToWorkspace", workspaceId, NoId)
    /\ UNCHANGED <<lastPath, beforeReload>>
    /\ Track

-----------------------------------------------------------------------------
\* Pages

\* prevWorkspaces.map(workspace => workspace.id !== workspaceId ? workspace
\*                                                               : F(workspace))
InWorkspace(ws, workspaceId, F(_)) ==
    Map(ws, LAMBDA w : IF w.id # workspaceId THEN w ELSE F(w))

createPage(workspaceId, title) ==
    /\ variant = "pages"
    /\ CanCall
    /\ uuidv4 \in Ids
    /\ calls' = Send([NoCall EXCEPT !.op = "createPage", !.id = uuidv4,
                                    !.wid = workspaceId, !.str = title,
                                    !.body = ""])
    /\ nextId' = nextId + 1
    /\ done' = NoDone
    /\ UNCHANGED <<workspaces, currentWorkspace, route, pendingEffect,
                   rWorkspaces, rPages, rAttachments, variant, user>>
    /\ UNCHANGED <<lastPath, beforeReload>>
    /\ Track

withNewPage(w, newPage) ==
    [w EXCEPT !.pages = Append(w.pages, newPage), !.currentPageId = newPage.id]

createPageDone(i) ==
    /\ variant = "pages"
    /\ Replied(i, "createPage")
    /\ LET c == calls[i] IN
        /\ IF c.ok
           THEN workspaces' = InWorkspace(workspaces, c.wid, LAMBDA w :
                                  withNewPage(w, Page(c.id, c.str, c.body, <<>>)))
           ELSE UNCHANGED workspaces
        /\ UNCHANGED <<currentWorkspace, route>>
        /\ Finish(i, IF c.ok THEN Returns(c.id) ELSE Returns(NoId))
    /\ UNCHANGED <<lastPath, beforeReload>>
    /\ Track

\* The page rebuilt from `updates` alone: a field that `updates` lacks is
\* reset.
replaced(page, updates) ==
    [id |-> page.id,
     title |-> IF "title" \in DOMAIN updates THEN updates["title"] ELSE "",
     content |-> IF "content" \in DOMAIN updates THEN updates["content"] ELSE "",
     attachments |-> page.attachments,
     isPublic |-> IF "isPublic" \in DOMAIN updates THEN updates["isPublic"]
                  ELSE FALSE]

\* { ...page, ...updates }: a field of `updates` replaces the page's, the
\* identifier as any other
merged(page, updates) ==
    [id |-> IF "id" \in DOMAIN updates THEN updates["id"] ELSE page.id,
     title |-> IF "title" \in DOMAIN updates THEN updates["title"] ELSE page.title,
     content |-> IF "content" \in DOMAIN updates THEN updates["content"]
                 ELSE page.content,
     attachments |-> page.attachments,
     isPublic |-> IF "isPublic" \in DOMAIN updates THEN updates["isPublic"]
                  ELSE page.isPublic]

\* The update object sent to the store, built from the fields of `updates`
\* that are not undefined
supabaseUpdates(updates) ==
    [k \in {f \in {"title", "content", "is_public"} :
                \/ f = "title" /\ "title" \in DOMAIN updates
                \/ f = "content" /\ "content" \in DOMAIN updates
                \/ f = "is_public" /\ "isPublic" \in DOMAIN updates} |->
        CASE k = "title" -> updates["title"]
          [] k = "content" -> updates["content"]
          [] k = "is_public" -> updates["isPublic"]]

updatedPages(w, pageId, updates) ==
    [w EXCEPT !.pages = Map(w.pages, LAMBDA page :
        IF page.id # pageId THEN page ELSE merged(page, updates))]

\* updatePage up to its await: the local state is updated before the request
\* is sent.
updatePage(workspaceId, pageId, updates) ==
    /\ variant = "pages"
    /\ CanCall
    /\ workspaces' = InWorkspace(workspaces, workspaceId, LAMBDA w :
                        updatedPages(w, pageId, updates))
    /\ LET c == [NoCall EXCEPT !.op = "updatePage", !.stage = "sent",
                                !.wid = workspaceId, !.pid = pageId,
                                !.upd = updates,
                                !.data = supabaseUpdates(updates)]
       IN  calls' = Send(c) /\ done' = Completed(c, Void)
    /\ pendingEffect' = Rendered(workspaces', currentWorkspace, route)
    /\ UNCHANGED <<currentWorkspace, route, nextId, rWorkspaces, rPages,
                   rAttachments, variant, user>>
    /\ UNCHANGED <<lastPath, beforeReload>>
    /\ Track

\* The page is put back as createPage made it when the request failed (what
\* an updatePage that undoes its local update would do).
rolledBack(ws, c) ==
    IF c.ok THEN ws
    ELSE InWorkspace(ws, c.wid, LAMBDA w :
            [w EXCEPT !.pages = Map(w.pages, LAMBDA page :
                IF page.id # c.pid THEN page
                ELSE [page EXCEPT !.title = "A", !.content = "",
                                  !.isPublic = FALSE])])

\* The collection after the reply: `if (error) throw error` is caught, logged
\* and shown in a toast, and the collection stays as it is.
caught(ws, c) == ws

updatePageDone(i) ==
    /\ variant = "pages"
    /\ Replied(i, "updatePage")
    /\ workspaces' = caught(workspaces, calls[i])
    /\ UNCHANGED <<currentWorkspace, route>>
    /\ Finish(i, Void)
    /\ UNCHANGED <<lastPath, beforeReload>>
    /\ Track

deletePage(workspaceId, pageId) ==
    /\ variant = "pages"
    /\ CanCall
    /\ calls' = Send([NoCall EXCEPT !.op = "deletePage", !.wid = workspaceId,
                                    !.pid = pageId])
    /\ done' = NoDone
    /\ UNCHANGED <<workspaces, currentWorkspace, route, pendingEffect, nextId,
                   rWorkspaces, rPages, rAttachments, variant, user>>
    /\ UNCHANGED <<lastPath, beforeReload>>
    /\ Track

\* The selection is left as it was (what a deletePage without the fix-up of
\* the selection would do).
keptCurrentPageId(w, updatedPages_, pageId) == w.currentPageId

updatedCurrentPageId(w, updatedPages_, pageId) ==
    IF w.currentPageId = pageId
    THEN (IF Len(updatedPages_) > 0 THEN updatedPages_[1].id ELSE NoId)
    ELSE w.currentPageId

withoutPage(w, pageId) ==
    LET updatedPages_ == Filter(w.pages, LAMBDA page : page.id # pageId)
    IN  [w EXCEPT !.pages = updatedPages_,
                  !.currentPageId = updatedCurrentPageId(w, updatedPages_, pageId)]

deletePageDone(i) ==
    /\ variant = "pages"
    /\ Replied(i, "deletePage")
    /\ LET c == calls[i] IN
        IF c.ok
        THEN workspaces' = InWorkspace(workspaces, c.wid, LAMBDA w :
                                withoutPage(w, c.pid))
        ELSE UNCHANGED workspaces
    /\ UNCHANGED <<currentWorkspace, route>>
    /\ Finish(i, Void)
    /\ UNCHANGED <<lastPath, beforeReload>>
    /\ Track

selectPage(ws, workspaceId, pageId) ==
    InWorkspace(ws, workspaceId, LAMBDA w : [w EXCEPT !.currentPageId = pageId])

InPage(ws, workspaceId, pageId, F(_)) ==
    InWorkspace(ws, workspaceId, LAMBDA w :
        [w EXCEPT !.pages = Map(w.pages, LAMBDA page :
            IF page.id # pageId THEN page ELSE F(page))])

togglePagePublic(workspaceId, pageId, isPublic) ==
    /\ variant = "pages"
    /\ CanCall
    /\ calls' = Send([NoCall EXCEPT !.op = "togglePagePublic",
                                    !.wid = workspaceId, !.pid = pageId,
                                    !.flag = isPublic])
    /\ done' = NoDone
    /\ UNCHANGED <<workspaces, currentWorkspace, route, pendingEffect, nextId,
                   rWorkspaces, rPages, rAttachments, variant, user>>
    /\ UNCHANGED <<lastPath, beforeReload>>
    /\ Track

togglePagePublicDone(i) ==
    /\ variant = "pages"
    /\ Replied(i, "togglePagePublic")
    /\ LET c == calls[i] IN
        IF c.ok
        THEN workspaces' = InPage(workspaces, c.wid, c.pid, LAMBDA page :
                                [page EXCEPT !.isPublic = c.flag])
        ELSE UNCHANGED workspaces
    /\ UNCHANGED <<currentWorkspace, route>>
    /\ Finish(i, Void)
    /\ UNCHANGED <<lastPath, beforeReload>>
    /\ Track

toggleWorkspacePublic(workspaceId, isPublic) ==
    /\ variant = "pages"
    /\ CanCall
    /\ calls' = Send([NoCall EXCEPT !.op = "toggleWorkspacePublic",
                                    !.wid = workspaceId, !.flag = isPublic])
    /\ done' = NoDone
    /\ UNCHANGED <<workspaces, currentWorkspace, route, pendingEffect, nextId,
                   rWorkspaces, rPages, rAttachments, variant, user>>
    /\ UNCHANGED <<lastPath, beforeReload>>
    /\ Track

toggleWorkspacePublicDone(i) ==
    /\ variant = "pages"
    /\ Replied(i, "toggleWorkspacePublic")
    /\ LET c == calls[i] IN
        IF c.ok
        THEN workspaces' = InWorkspace(workspaces, c.wid, LAMBDA workspace :
                                [workspace EXCEPT !.isPublic = c.flag])
        ELSE UNCHANGED workspaces
    /\ UNCHANGED <<currentWorkspace, route>>
    /\ Finish(i, Void)
    /\ UNCHANGED <<lastPath, beforeReload>>
    /\ Track

-----------------------------------------------------------------------------
\* The share menus: copying the share link of a page or of a workspace

\* currentWorkspace.pages.find(page => page.id ===
\* currentWorkspace.currentPageId), of WorkspaceContent
currentPage ==
    IF currentWorkspace = Null THEN Null
    ELSE Find(currentWorkspace.pages,
              LAMBDA page : page.id = currentWorkspace.currentPageId, Null)

\* A handler that copies the link of entity `type` (wid, pid) has run: it
\* sent `request`, or nothing when `request` is NoCall.
Copied(handler, type, wid, pid, request) ==
    /\ calls' = IF request = NoCall THEN calls ELSE Send(request)
    /\ done' = Completed([NoCall EXCEPT !.op = handler, !.str = type,
                                        !.wid = wid, !.pid = pid], Void)
    /\ UNCHANGED <<workspaces, currentWorkspace, route, pendingEffect, nextId,
                   rWorkspaces, rPages, rAttachments, variant, user>>

\* if (!entity.isPublic) toggle...Public(..., true)
publishes(isPublic, request) == IF isPublic THEN NoCall ELSE request

\* copyShareLink of WorkspaceContent, which Index and WorkspacePage render;
\* its share menu is rendered when the workspace has a current page.
copyShareLink(type) ==
    /\ variant = "pages"
    /\ CanCall
    /\ user # Null
    /\ route.kind \in {"root", "workspace"}
    /\ currentWorkspace # Null
    /\ currentPage # Null
    /\ CASE type = "page" ->
            Copied("copyShareLink", type, currentWorkspace.id, currentPage.id,
                publishes(currentPage.isPublic,
                    [NoCall EXCEPT !.op = "togglePagePublic",
                                   !.wid = currentWorkspace.id,
                                   !.pid = currentPage.id, !.flag = TRUE]))
         [] type = "workspace" ->
            Copied("copyShareLink", type, currentWorkspace.id, NoId,
                publishes(currentWorkspace.isPublic,
                    [NoCall EXCEPT !.op = "toggleWorkspacePublic",
                                   !.wid = currentWorkspace.id, !.flag = TRUE]))
    /\ UNCHANGED <<lastPath, beforeReload>>
    /\ Track

\* copyShareLink of WorkspacePage ('/workspace/:workspaceId')
WorkspacePage_copyShareLink ==
    /\ variant = "pages"
    /\ CanCall
    /\ route.kind = "workspace"
    /\ currentWorkspace # Null
    /\ Copied("WorkspacePage_copyShareLink", "workspace", currentWorkspace.id,
              NoId,
              publishes(currentWorkspace.isPublic,
                  [NoCall EXCEPT !.op = "toggleWorkspacePublic",
                                 !.wid = currentWorkspace.id, !.flag = TRUE]))
    /\ UNCHANGED <<lastPath, beforeReload>>
    /\ Track

\* handleSharePage of the PageEditor that PageView renders for the page of
\* the location ('/workspace/:workspaceId/page/:pageId')
handleSharePage ==
    /\ variant = "pages"
    /\ CanCall
    /\ user # Null
    /\ route.kind = "page"
    /\ getWorkspaceById(workspaces, route.w) # Null
    /\ LET pageData == getPageById(workspaces, route.p) IN
        /\ pageData # Null
        /\ Copied("handleSharePage", "page", route.w, route.p,
                  publishes(pageData.isPublic,
                      [NoCall EXCEPT !.op = "togglePagePublic",
                                     !.wid = route.w, !.pid = route.p,
                                     !.flag = TRUE]))
    /\ UNCHANGED <<lastPath, beforeReload>>
    /\ Track

addAttachment(workspaceId, pageId, imageData, name) ==
    /\ variant = "pages"
    /\ CanCall
    /\ uuidv4 \in Ids
    /\ calls' = Send([NoCall EXCEPT !.op = "addAttachment", !.id = uuidv4,
                                    !.wid = workspaceId, !.pid = pageId,
                                    !.body = imageData, !.str = name])
    /\ nextId' = nextId + 1
    /\ done' = NoDone
    /\ UNCHANGED <<workspaces, currentWorkspace, route, pendingEffect,
                   rWorkspaces, rPages, rAttachments, variant, user>>
    /\ UNCHANGED <<lastPath, beforeReload>>
    /\ Track

\* The page with the attachment whatever the reply was (what an addAttachment
\* that updates the collection before it looks at the reply would do)
attachedAnyway(page, c) ==
    [page EXCEPT !.attachments =
        Append(page.attachments, Attachment(c.id, c.body, c.str))]

\* The page after the reply: `if (error) throw error` comes before the
\* update of the collection
attached(page, c) ==
    IF c.ok
    THEN [page EXCEPT !.attachments =
            Append(page.attachments, Attachment(c.id, c.body, c.str))]
    ELSE page

addAttachmentDone(i) ==
    /\ variant = "pages"
    /\ Replied(i, "addAttachment")
    /\ workspaces' = InPage(workspaces, calls[i].wid, calls[i].pid, LAMBDA page :
                        attached(page, calls[i]))
    /\ UNCHANGED <<currentWorkspace, route>>
    /\ Finish(i, Void)
    /\ UNCHANGED <<lastPath, beforeReload>>
    /\ Track

removeAttachment(workspaceId, pageId, attachmentId) ==
    /\ variant = "pages"
    /\ CanCall
    /\ calls' = Send([NoCall EXCEPT !.op = "removeAttachment",
                                    !.wid = workspaceId, !.pid = pageId,
                                    !.aid = attachmentId])
    /\ done' = NoDone
    /\ UNCHANGED <<workspaces, currentWorkspace, route, pendingEffect, nextId,
                   rWorkspaces, rPages, rAttachments, variant, user>>
    /\ UNCHANGED <<lastPath, beforeReload>>
    /\ Track

removeAttachmentDone(i) ==
    /\ variant = "pages"
    /\ Replied(i, "removeAttachment")
    /\ LET c == calls[i] IN
        IF c.ok
        THEN workspaces' = InPage(workspaces, c.wid, c.pid, LAMBDA page :
                [page EXCEPT !.attachments =
                    Filter(page.attachments, LAMBDA attachment :
                                attachment.id # c.aid)])
        ELSE UNCHANGED workspaces
    /\ UNCHANGED <<currentWorkspace, route>>
    /\ Finish(i, Void)
    /\ UNCHANGED <<lastPath, beforeReload>>
    /\ Track

\* addContentItem: a content item becomes a page of the workspace.

\* Every item as a note: its content as the body, no attachment
notePageOf(item, newPageId, attachmentId) ==
    [id |-> newPageId, title |-> item.title, content |-> item.content,
     attachments |-> <<>>, isPublic |-> FALSE]

\* newPage, for a note and for an image
newPageOf(item, newPageId, attachmentId) ==
    IF item.type = "note"
    THEN [id |-> newPageId, title |-> item.title, content |-> item.content,
          attachments |-> <<>>, isPublic |-> FALSE]
    ELSE [id |-> newPageId, title |-> item.title, content |-> "",
          attachments |-> <<Attachment(attachmentId, item.content, item.title)>>,
          isPublic |-> FALSE]

\* The updater runs once: it generates the identifiers (one for a note, two
\* for an image), sends the insert of the page without awaiting it and
\* returns the workspace with the new page, selected.  With a workspace the
\* collection lacks, it generates and sends nothing.
addContentItem(workspaceId, item) ==
    /\ variant = "pages"
    /\ CanCall
    /\ LET newPageId == uuidv4
           attachmentId == IF item.type = "image" THEN uuidv4 + 1 ELSE NoId
           used == IF item.type = "image" THEN 2 ELSE 1
           c == [NoCall EXCEPT !.op = "addContentItem", !.id = newPageId,
                               !.aid = attachmentId, !.wid = workspaceId,
                               !.str = item.title, !.upd = item,
                               !.body = newPageOf(item, newPageId,
                                                  attachmentId).content]
       IN  IF workspaceId \in WorkspaceIds(workspaces)
           THEN /\ uuidv4 + used - 1 \in Ids
                /\ workspaces' = InWorkspace(workspaces, workspaceId, LAMBDA w :
                        withNewPage(w, newPageOf(item, newPageId, attachmentId)))
                /\ calls' = Send(c)
                /\ nextId' = nextId + used
                /\ done' = Completed(c, Void)
           ELSE /\ UNCHANGED <<workspaces, calls, nextId>>
                /\ done' = Completed([c EXCEPT !.id = NoId, !.aid = NoId], Void)
    /\ pendingEffect' = Rendered(workspaces', currentWorkspace, route)
    /\ UNCHANGED <<currentWorkspace, route, rWorkspaces, rPages, rAttachments,
                   variant, user>>
    /\ UNCHANGED <<lastPath, beforeReload>>
    /\ Track

\* The `then` of the insert of the page.  It reads `pageError`, a property
\* the reply does not have (the reply has `error`), so it never sees a
\* failure: for an image it goes on to insert the attachment.
addContentItemThen(i) ==
    /\ variant = "pages"
    /\ Replied(i, "addContentItem")
    /\ LET c == calls[i]
           pageError == FALSE
       IN  calls' = IF c.upd.type = "image" /\ ~pageError
                    THEN [calls EXCEPT ![i].op = "addContentItemAttachment",
                                       ![i].stage = "sent", ![i].ok = TRUE]
                    ELSE RemoveAt(calls, i)
    /\ done' = NoDone
    /\ UNCHANGED <<workspaces, currentWorkspace, route, pendingEffect, nextId,
                   rWorkspaces, rPages, rAttachments, variant, user>>
    /\ UNCHANGED <<lastPath, beforeReload>>
    /\ Track

\* The `then` of the insert of the attachment: it logs an error.
addContentItemAttachmentThen(i) ==
    /\ variant = "pages"
    /\ Replied(i, "addContentItemAttachment")
    /\ calls' = RemoveAt(calls, i)
    /\ done' = NoDone
    /\ UNCHANGED <<workspaces, currentWorkspace, route, pendingEffect, nextId,
                   rWorkspaces, rPages, rAttachments, variant, user>>
    /\ UNCHANGED <<lastPath, beforeReload>>
    /\ Track

-----------------------------------------------------------------------------
\* The share view (SharedPage, '/share/page/:pageId')

\* The rows with that identifier, public or not
AnyPageRows(pageId) == Filter(rPages, LAMBDA r : r.id = pageId)

\* from('pages').select('*').eq('id', pageId).eq('is_public', true)
SharedPageRows(pageId) ==
    Filter(rPages, LAMBDA r : r.id = pageId /\ r.is_public)

\* What the view shows: the page and its attachments, or an error
Shown(row, attachments) ==
    [kind |-> "page", id |-> row.id, title |-> row.title,
     content |-> row.content, attachments |-> attachments]
Denied(pageId) ==
    [kind |-> "error", id |-> pageId, title |-> "", content |-> "",
     attachments |-> <<>>]

\* .single() is an error unless exactly one row matches; the attachments are
\* fetched after the page, and an error of that query shows none.
fetchPageResult(pageId, ok, okAttachments) ==
    IF ~ok \/ Len(SharedPageRows(pageId)) # 1 THEN Denied(pageId)
    ELSE Shown(SharedPageRows(pageId)[1],
               AttachmentsOf(pageId, IF okAttachments THEN {} ELSE {pageId}))

\* The effect of SharedPage: one visitor opens the share link of a page.
fetchPage(pageId) ==
    /\ \E ok \in BOOLEAN, okAttachments \in BOOLEAN :
        done' = [c |-> [NoCall EXCEPT !.op = "fetchPage", !.pid = pageId,
                                      !.ok = ok],
                 val |-> fetchPageResult(pageId, ok, okAttachments),
                 ws |-> workspaces, cw |-> currentWorkspace]
    /\ UNCHANGED <<workspaces, currentWorkspace, route, pendingEffect, calls,
                   nextId, rWorkspaces, rPages, rAttachments, variant, user>>
    /\ UNCHANGED <<lastPath, beforeReload>>
    /\ Track

-----------------------------------------------------------------------------
\* Load-all (fetchWorkspaces, run once by the provider's mount effect)

FetchWorkspaces == [NoCall EXCEPT !.op = "fetchWorkspaces", !.stage = "sent"]

\* The pages of a workspace without their content
BlankPagesOf(workspaceId, failedAtt) ==
    Map(Reverse(Filter(rPages, LAMBDA r : r.workspace_id = workspaceId)),
        LAMBDA r : [id |-> r.id, title |-> r.title, content |-> "",
                    attachments |-> AttachmentsOf(r.id, failedAtt),
                    isPublic |-> r.is_public])

\* from("pages").select("*").eq("workspace_id", id).order("created_at",
\* {ascending: false}), each row mapped to a Page
PagesOf(workspaceId, failedAtt) ==
    Map(Reverse(Filter(rPages, LAMBDA r : r.workspace_id = workspaceId)),
        LAMBDA r : [id |-> r.id, title |-> r.title, content |-> r.content,
                    attachments |-> AttachmentsOf(r.id, failedAtt),
                    isPublic |-> r.is_public])

\* A load in which one failed query on pages empties every workspace
AllOrNothingWorkspace(row, failedPages, failedAtt) ==
    [id |-> row.id, name |-> row.name,
     pages |-> IF failedPages # {} THEN <<>> ELSE PagesOf(row.id, failedAtt),
     currentPageId |-> NoId, isPublic |-> row.is_public]

LoadedWorkspace(row, failedPages, failedAtt) ==
    [id |-> row.id, name |-> row.name,
     pages |-> IF row.id \in failedPages THEN <<>>
               ELSE PagesOf(row.id, failedAtt),
     currentPageId |-> NoId, isPublic |-> row.is_public]

\* The store answers the query on workspaces (newest first), or fails.
fetchWorkspacesRows(i) ==
    /\ i \in DOMAIN calls
    /\ calls[i].op = "fetchWorkspaces"
    /\ calls[i].stage = "sent"
    /\ \E ok \in BOOLEAN :
        calls' = [calls EXCEPT ![i].stage = IF ok THEN "children" ELSE "replied",
                               ![i].ok = ok,
                               ![i].data = IF ok THEN Reverse(rWorkspaces) ELSE <<>>]
    /\ done' = NoDone
    /\ UNCHANGED <<workspaces, currentWorkspace, route, pendingEffect, nextId,
                   rWorkspaces, rPages, rAttachments, variant, user>>
    /\ UNCHANGED <<lastPath, beforeReload>>
    /\ Track

\* The store answers the queries on the pages of each workspace and on the
\* attachments of each page; each of them may fail on its own.
fetchWorkspacesChildren(i) ==
    /\ i \in DOMAIN calls
    /\ calls[i].op = "fetchWorkspaces"
    /\ calls[i].stage = "children"
    /\ \E failedPages \in SUBSET WorkspaceIds(calls[i].data),
          failedAtt \in SUBSET {r.id : r \in Range(rPages)} :
        calls' = [calls EXCEPT ![i].stage = "replied",
                               ![i].failed = failedPages,
                               ![i].data = Map(calls[i].data, LAMBDA row :
                                    LoadedWorkspace(row, failedPages, failedAtt))]
    /\ done' = NoDone
    /\ UNCHANGED <<workspaces, currentWorkspace, route, pendingEffect, nextId,
                   rWorkspaces, rPages, rAttachments, variant, user>>
    /\ UNCHANGED <<lastPath, beforeReload>>
    /\ Track

fetchWorkspacesDone(i) ==
    /\ variant = "pages"
    /\ Replied(i, "fetchWorkspaces")
    /\ IF calls[i].ok
       THEN workspaces' = calls[i].data
       ELSE UNCHANGED workspaces
    /\ UNCHANGED <<currentWorkspace, route>>
    /\ Finish(i, Void)
    /\ UNCHANGED <<lastPath, beforeReload>>
    /\ Track

-----------------------------------------------------------------------------
\* The provider that keeps the attachments in the row of their page
\* (src/unnamed/part_000)

LegacyFetchWorkspaces ==
    [NoCall EXCEPT !.op = "legacy_fetchWorkspaces", !.stage = "sent"]

LegacyPage(id, title, content, attachments) ==
    [id |-> id, title |-> title, content |-> content,
     attachments |-> attachments]

LegacyWorkspace(id, name) ==
    [id |-> id, name |-> name, pages |-> <<>>, currentPageId |-> NoId]

legacy_createWorkspace(name) ==
    /\ variant = "legacy"
    /\ CanCall
    /\ uuidv4 \in Ids
    /\ calls' = Send([NoCall EXCEPT !.op = "legacy_createWorkspace",
                                    !.id = uuidv4, !.str = name])
    /\ nextId' = nextId + 1
    /\ done' = NoDone
    /\ UNCHANGED <<workspaces, currentWorkspace, route, pendingEffect,
                   rWorkspaces, rPages, rAttachments, variant, user>>
    /\ UNCHANGED <<lastPath, beforeReload>>
    /\ Track

legacy_createWorkspaceDone(i) ==
    /\ variant = "legacy"
    /\ Replied(i, "legacy_createWorkspace")
    /\ IF calls[i].ok
       THEN workspaces' = Append(workspaces,
                                 LegacyWorkspace(calls[i].id, calls[i].str))
       ELSE UNCHANGED workspaces
    /\ UNCHANGED <<currentWorkspace, route>>
    /\ Finish(i, Void)
    /\ UNCHANGED <<lastPath, beforeReload>>
    /\ Track

legacy_createPage(workspaceId, title) ==
    /\ variant = "legacy"
    /\ CanCall
    /\ uuidv4 \in Ids
    /\ calls' = Send([NoCall EXCEPT !.op = "legacy_createPage", !.id = uuidv4,
                                    !.wid = workspaceId, !.str = title,
                                    !.body = ""])
    /\ nextId' = nextId + 1
    /\ done' = NoDone
    /\ UNCHANGED <<workspaces, currentWorkspace, route, pendingEffect,
                   rWorkspaces, rPages, rAttachments, variant, user>>
    /\ UNCHANGED <<lastPath, beforeReload>>
    /\ Track

legacy_createPageDone(i) ==
    /\ variant = "legacy"
    /\ Replied(i, "legacy_createPage")
    /\ LET c == calls[i] IN
        IF c.ok
        THEN workspaces' = InWorkspace(workspaces, c.wid, LAMBDA w :
                [w EXCEPT !.pages = Append(w.pages,
                                    LegacyPage(c.id, c.str, c.body, <<>>))])
        ELSE UNCHANGED workspaces
    /\ UNCHANGED <<currentWorkspace, route>>
    /\ Finish(i, Void)
    /\ UNCHANGED <<lastPath, beforeReload>>
    /\ Track

\* The attachments of the page as the render `ws` has them
\* (currentPage?.attachments || [])
currentAttachments(ws, workspaceId, pageId) ==
    LET workspace == getWorkspaceById(ws, workspaceId)
        page == IF workspace = Null THEN Null
                ELSE Find(workspace.pages, LAMBDA p : p.id = pageId, Null)
    IN  IF page = Null THEN <<>> ELSE page.attachments

\* The renders whose handlers may call addAttachment: the committed one, and
\* the one in which an addAttachment still in flight was called (the files
\* of one drop are read one after the other and each is added by the
\* handler of the render in which they were dropped)
Renders ==
    {workspaces} \cup {calls[i].clw : i \in {j \in DOMAIN calls :
                                    calls[j].op = "legacy_addAttachment"}}

\* The identifiers that attachments may take
AttachmentIds == 1..(MaxIds + 1)

\* addAttachment up to its await: the attachment is appended in the
\* collection, and the list sent to the store is the list of the render the
\* call was made in, plus the attachment.
legacy_addAttachment(workspaceId, pageId, imageData, name, render) ==
    /\ variant = "legacy"
    /\ CanCall
    /\ uuidv4 \in AttachmentIds
    /\ LET newAttachment == Attachment(uuidv4, imageData, name)
           c == [NoCall EXCEPT !.op = "legacy_addAttachment", !.stage = "sent",
                               !.id = uuidv4, !.wid = workspaceId,
                               !.pid = pageId, !.body = imageData,
                               !.str = name, !.clw = render,
                               !.data = JSONstringify(Append(
                                   currentAttachments(render, workspaceId, pageId),
                                   newAttachment))]
       IN  /\ workspaces' = InPage(workspaces, workspaceId, pageId, LAMBDA page :
                    [page EXCEPT !.attachments = Append(page.attachments,
                                                        newAttachment)])
           /\ calls' = Send(c)
           /\ done' = Completed(c, Void)
    /\ nextId' = nextId + 1
    /\ pendingEffect' = Rendered(workspaces', currentWorkspace, route)
    /\ UNCHANGED <<currentWorkspace, route, rWorkspaces, rPages, rAttachments,
                   variant, user>>
    /\ UNCHANGED <<lastPath, beforeReload>>
    /\ Track

\* The reply is not looked at.
legacy_addAttachmentDone(i) ==
    /\ variant = "legacy"
    /\ Replied(i, "legacy_addAttachment")
    /\ UNCHANGED <<workspaces, currentWorkspace, route>>
    /\ Finish(i, Void)
    /\ UNCHANGED <<lastPath, beforeReload>>
    /\ Track

\* A workspace as the load builds it; the column currentPageId it reads is
\* written by no operation, so the value is undefined.
LegacyLoadedWorkspace(row, failedPages) ==
    [id |-> row.id, name |-> row.name,
     pages |-> IF row.id \in failedPages THEN <<>>
               ELSE Map(Reverse(Filter(rPages, LAMBDA r : r.workspaceId = row.id)),
                        LAMBDA r : LegacyPage(r.id, r.title, r.content,
                                              JSONparse(r.attachments))),
     currentPageId |-> NoId]

legacy_fetchWorkspacesRows(i) ==
    /\ i \in DOMAIN calls
    /\ calls[i].op = "legacy_fetchWorkspaces"
    /\ calls[i].stage = "sent"
    /\ \E ok \in BOOLEAN :
        calls' = [calls EXCEPT ![i].stage = IF ok THEN "children" ELSE "replied",
                               ![i].ok = ok,
                               ![i].data = IF ok THEN Reverse(rWorkspaces) ELSE <<>>]
    /\ done' = NoDone
    /\ UNCHANGED <<workspaces, currentWorkspace, route, pendingEffect, nextId,
                   rWorkspaces, rPages, rAttachments, variant, user>>
    /\ UNCHANGED <<lastPath, beforeReload>>
    /\ Track

legacy_fetchWorkspacesChildren(i) ==
    /\ i \in DOMAIN calls
    /\ calls[i].op = "legacy_fetchWorkspaces"
    /\ calls[i].stage = "children"
    /\ \E failedPages \in SUBSET WorkspaceIds(calls[i].data) :
        calls' = [calls EXCEPT ![i].stage = "replied",
                               ![i].failed = failedPages,
                               ![i].data = Map(calls[i].data, LAMBDA row :
                                    LegacyLoadedWorkspace(row, failedPages))]
    /\ done' = NoDone
    /\ UNCHANGED <<workspaces, currentWorkspace, route, pendingEffect, nextId,
                   rWorkspaces, rPages, rAttachments, variant, user>>
    /\ UNCHANGED <<lastPath, beforeReload>>
    /\ Track

legacy_fetchWorkspacesDone(i) ==
    /\ variant = "legacy"
    /\ Replied(i, "legacy_fetchWorkspaces")
    /\ IF calls[i].ok
       THEN workspaces' = calls[i].data
       ELSE UNCHANGED workspaces
    /\ UNCHANGED <<currentWorkspace, route>>
    /\ Finish(i, Void)
    /\ UNCHANGED <<lastPath, beforeReload>>
    /\ Track

-----------------------------------------------------------------------------
\* The provider of workspaces of content items (src/unnamed/part_001).  No
\* operation of this module stores a content item, so every workspace has
\* an empty `items`.

LoadWorkspaces == [NoCall EXCEPT !.op = "loadWorkspaces", !.stage = "sent"]

ItemsWorkspace(id, name) == [id |-> id, name |-> name, items |-> <<>>]

\* The store answers the query on the user's workspaces (oldest first) and
\* on the content items of each, or fails.
loadWorkspacesRows(i) ==
    /\ i \in DOMAIN calls
    /\ calls[i].op = "loadWorkspaces"
    /\ calls[i].stage = "sent"
    /\ \E ok \in BOOLEAN :
        calls' = [calls EXCEPT
            ![i].stage = "replied", ![i].ok = ok,
            ![i].data = IF ok
                        THEN Map(Filter(rWorkspaces, LAMBDA r : r.user_id = calls[i].clu.id),
                                 LAMBDA r : ItemsWorkspace(r.id, r.name))
                        ELSE <<>>]
    /\ done' = NoDone
    /\ UNCHANGED <<workspaces, currentWorkspace, route, pendingEffect, nextId,
                   rWorkspaces, rPages, rAttachments, variant, user>>
    /\ UNCHANGED <<lastPath, beforeReload>>
    /\ Track

loadWorkspacesDone(i) ==
    /\ variant = "items"
    /\ Replied(i, "loadWorkspaces")
    /\ LET workspacesWithItems == calls[i].data IN
        IF calls[i].ok
        THEN /\ workspaces' = workspacesWithItems
             /\ currentWorkspace' = IF Len(workspacesWithItems) > 0
                                    THEN workspacesWithItems[1] ELSE Null
        ELSE UNCHANGED <<workspaces, currentWorkspace>>
    /\ UNCHANGED route
    /\ Finish(i, Void)
    /\ UNCHANGED <<lastPath, beforeReload>>
    /\ Track

\* createWorkspace without a user: an error toast, and nothing else
items_createWorkspaceRefused(name) ==
    /\ variant = "items"
    /\ user = Null
    /\ ~pendingEffect
    /\ done' = Completed([NoCall EXCEPT !.op = "items_createWorkspace",
                                        !.stage = "refused", !.str = name], Void)
    /\ UNCHANGED <<workspaces, currentWorkspace, route, pendingEffect, calls,
                   nextId, rWorkspaces, rPages, rAttachments, variant, user>>
    /\ UNCHANGED <<lastPath, beforeReload>>
    /\ Track

items_createWorkspace(name) ==
    /\ variant = "items"
    /\ user # Null
    /\ CanCall
    /\ calls' = Send([NoCall EXCEPT !.op = "items_createWorkspace",
                                    !.str = name, !.clw = workspaces,
                                    !.clu = user])
    /\ done' = NoDone
    /\ UNCHANGED <<workspaces, currentWorkspace, route, pendingEffect, nextId,
                   rWorkspaces, rPages, rAttachments, variant, user>>
    /\ UNCHANGED <<lastPath, beforeReload>>
    /\ Track

\* insert({ name, user_id }).select().single(): the store generates the
\* identifier of the row and returns the row.
items_insertWorkspace(i) ==
    /\ i \in DOMAIN calls
    /\ calls[i].op = "items_createWorkspace"
    /\ calls[i].stage = "sent"
    /\ \/ /\ uuidv4 \in Ids
          /\ rWorkspaces' = Append(rWorkspaces,
                [id |-> uuidv4, name |-> calls[i].str, user_id |-> calls[i].clu.id])
          /\ calls' = [calls EXCEPT ![i].stage = "replied", ![i].ok = TRUE,
                                    ![i].id = uuidv4]
          /\ nextId' = nextId + 1
       \/ /\ calls' = [calls EXCEPT ![i].stage = "replied", ![i].ok = FALSE]
          /\ UNCHANGED <<rWorkspaces, nextId>>
    /\ done' = NoDone
    /\ UNCHANGED <<workspaces, currentWorkspace, route, pendingEffect, rPages,
                   rAttachments, variant, user>>
    /\ UNCHANGED <<lastPath, beforeReload>>
    /\ Track

items_createWorkspaceDone(i) ==
    /\ variant = "items"
    /\ Replied(i, "items_createWorkspace")
    /\ LET c == calls[i]
           workspaceWithItems == ItemsWorkspace(c.id, c.str)
       IN  IF c.ok
           THEN /\ workspaces' = Append(c.clw, workspaceWithItems)
                /\ currentWorkspace' = workspaceWithItems
           ELSE UNCHANGED <<workspaces, currentWorkspace>>
    /\ UNCHANGED route
    /\ Finish(i, Void)
    /\ UNCHANGED <<lastPath, beforeReload>>
    /\ Track

items_deleteWorkspace(id) ==
    /\ variant = "items"
    /\ CanCall
    /\ calls' = Send([NoCall EXCEPT !.op = "items_deleteWorkspace", !.wid = id,
                                    !.clw = workspaces,
                                    !.clc = currentWorkspace])
    /\ done' = NoDone
    /\ UNCHANGED <<workspaces, currentWorkspace, route, pendingEffect, nextId,
                   rWorkspaces, rPages, rAttachments, variant, user>>
    /\ UNCHANGED <<lastPath, beforeReload>>
    /\ Track

\* The current workspace after the deletion of the selected one
fallback(updatedWorkspaces) ==
    IF Len(updatedWorkspaces) > 0 THEN updatedWorkspaces[1] ELSE Null

items_deleteWorkspaceDone(i) ==
    /\ variant = "items"
    /\ Replied(i, "items_deleteWorkspace")
    /\ LET c == calls[i]
           updatedWorkspaces == without(c.clw, c.wid)
       IN  IF c.ok
           THEN /\ workspaces' = updatedWorkspaces
                /\ IF c.clc.id = c.wid
                   THEN currentWorkspace' = fallback(updatedWorkspaces)
                   ELSE UNCHANGED currentWorkspace
           ELSE UNCHANGED <<workspaces, currentWorkspace>>
    /\ UNCHANGED route
    /\ Finish(i, Void)
    /\ UNCHANGED <<lastPath, beforeReload>>
    /\ Track

items_selectWorkspace(id) ==
    /\ variant = "items"
    /\ IF getWorkspaceById(workspaces, id) # Null
       THEN currentWorkspace' = getWorkspaceById(workspaces, id)
       ELSE UNCHANGED currentWorkspace
    /\ UNCHANGED <<workspaces, route>>
    /\ FinishSync("selectWorkspace", id, NoId)
    /\ UNCHANGED <<lastPath, beforeReload>>
    /\ Track

-----------------------------------------------------------------------------
\* The identity (AuthContext)

\* The provider of src/unnamed/part_001 loads again when `user` changes: a
\* request for the workspaces of that user, the loads in flight going on.
LoadFor(u) == Append(calls, [LoadWorkspaces EXCEPT !.clu = u])

\* login(email, password): the session gets a user with a generated id.
login(uid) ==
    /\ Len(calls) < MaxCalls
    /\ ~pendingEffect
    /\ user' = User(uid)
    /\ calls' = IF variant = "items" THEN LoadFor(user') ELSE calls
    /\ done' = NoDone
    /\ UNCHANGED <<workspaces, currentWorkspace, route, pendingEffect, nextId,
                   rWorkspaces, rPages, rAttachments, variant>>
    /\ UNCHANGED <<lastPath, beforeReload>>
    /\ Track

\* The collection as it is, not emptied
stillLoaded(ws) == ws

\* loadWorkspaces without a user: setWorkspaces([])
loggedOut(ws) == <<>>

\* logout(): the session has no user.  The provider of src/unnamed/part_001
\* runs loadWorkspaces, which without a user empties the state and sends
\* nothing; in the application, WorkspacePage and PageView go to '/login'.
logout ==
    /\ user # Null
    /\ ~pendingEffect
    /\ user' = Null
    /\ IF variant = "items"
       THEN /\ workspaces' = loggedOut(workspaces)
            /\ currentWorkspace' = Null
            /\ UNCHANGED route
            /\ done' = Completed([LoadWorkspaces EXCEPT !.stage = "none"], Void)
       ELSE /\ route' = IF route.kind \in {"workspace", "page"}
                        THEN LoginRoute ELSE route
            /\ UNCHANGED <<workspaces, currentWorkspace>>
            /\ done' = NoDone
    /\ UNCHANGED <<pendingEffect, calls, nextId, rWorkspaces, rPages,
                   rAttachments, variant>>
    /\ UNCHANGED <<lastPath, beforeReload>>
    /\ Track

-----------------------------------------------------------------------------
\* The dialog that creates a workspace (WorkspaceDialog, mode 'create')

\* What the name field may hold
DialogNames == {"", " ", "A", " A"}

\* String.prototype.trim on these
trim(name) ==
    CASE name = " " -> ""
      [] name = " A" -> "A"
      [] OTHER -> name

\* handleSubmit: a name that is empty once trimmed ends it; the name goes to
\* createWorkspace as it was typed.  The pages of the application render
\* the dialog for a logged-in user.
handleSubmit(name) ==
    /\ user # Null
    /\ IF trim(name) = ""
       THEN /\ ~pendingEffect
            /\ done' = Completed([NoCall EXCEPT !.op = "handleSubmit",
                                                !.stage = "refused",
                                                !.str = name], Void)
            /\ UNCHANGED <<workspaces, currentWorkspace, route, pendingEffect,
                           calls, nextId, rWorkspaces, rPages, rAttachments,
                           variant, user>>
            /\ UNCHANGED <<lastPath, beforeReload>>
            /\ Track
       ELSE \/ createWorkspace(name)
            \/ items_createWorkspace(name)

\* The load that the mount effect of provider v starts
Mount(v) ==
    CASE v = "pages" -> FetchWorkspaces
      [] v = "legacy" -> LegacyFetchWorkspaces
      [] v = "items" -> [LoadWorkspaces EXCEPT !.clu = user]

-----------------------------------------------------------------------------
\* The router

\* The first effect of WorkspacePage and of PageView sends a session without
\* a user to '/login'; a navigate of the second effect comes after it.
AuthEffect == IF user = Null THEN LoginRoute ELSE route

\* WorkspacePage's effect on '/workspace/:workspaceId'
WorkspacePageEffect ==
    IF getWorkspaceById(workspaces, route.w) # Null
    THEN /\ currentWorkspace' = selectWorkspaceValue(workspaces, route.w)
         /\ route' = AuthEffect
         /\ UNCHANGED workspaces
    ELSE /\ route' = RootRoute
         /\ UNCHANGED <<workspaces, currentWorkspace>>

\* PageView's effect on '/workspace/:workspaceId/page/:pageId'
PageViewEffect ==
    IF /\ getWorkspaceById(workspaces, route.w) # Null
       /\ getPageById(workspaces, route.p) # Null
    THEN /\ currentWorkspace' = selectWorkspaceValue(workspaces, route.w)
         /\ workspaces' = selectPage(workspaces, route.w, route.p)
         /\ route' = AuthEffect
    ELSE /\ route' = RootRoute
         /\ UNCHANGED <<workspaces, currentWorkspace>>

\* The effects of the routed page run after a render was committed.
RouteEffect ==
    /\ variant = "pages"
    /\ pendingEffect
    /\ CASE route.kind = "workspace" -> WorkspacePageEffect
         [] route.kind = "page" -> PageViewEffect
         [] OTHER -> UNCHANGED <<workspaces, currentWorkspace, route>>
    /\ pendingEffect' = Rendered(workspaces', currentWorkspace', route')
    /\ done' = NoDone
    /\ UNCHANGED <<calls, nextId, rWorkspaces, rPages, rAttachments, variant, user>>
    /\ UNCHANGED <<lastPath, beforeReload>>
    /\ Track

\* The location changes without a page load: a link of the application, or
\* a call of navigate (RestoreLastPath's navigate(lastPath) is one of these).
Navigate(r) ==
    /\ variant = "pages"
    /\ ~pendingEffect
    /\ route' = r
    /\ pendingEffect' = (r.kind # "root")
    /\ done' = NoDone
    /\ UNCHANGED <<workspaces, currentWorkspace, calls, nextId, rWorkspaces,
                   rPages, rAttachments, variant, user>>
    /\ UNCHANGED <<lastPath, beforeReload>>
    /\ Track

\* localStorage 'lastPath': initApp stores the first location, the popstate
\* handler and RestoreLastPath store the locations that follow.

\* The effect of RestoreLastPath has not run for the location
RestorePending ==
    IF route = RootRoute THEN lastPath # RootRoute ELSE lastPath # route

\* The effect of RestoreLastPath, which runs when the location has changed,
\* before the effects of the routed page: on '/' it goes to the stored path,
\* unless that is '/'; elsewhere it stores the location.
RestoreLastPath ==
    /\ variant = "pages"
    /\ RestorePending
    /\ IF route = RootRoute
       THEN route' = lastPath /\ lastPath' = lastPath
       ELSE lastPath' = route /\ route' = route
    /\ pendingEffect' =
          (pendingEffect \/ Rendered(workspaces, currentWorkspace, route'))
    /\ done' = NoDone
    /\ UNCHANGED <<workspaces, currentWorkspace, calls, nextId, rWorkspaces,
                   rPages, rAttachments, variant, user>>
    /\ UNCHANGED beforeReload
    /\ Track

\* The back and forward buttons of the browser: the popstate handler of
\* initApp stores the location, unless it is the login page, and the router
\* follows.
popstate(r) ==
    /\ variant = "pages"
    /\ ~pendingEffect
    /\ route' = r
    /\ lastPath' = IF r.kind = "login" THEN lastPath ELSE r
    /\ pendingEffect' = (r.kind # "root")
    /\ done' = Completed([NoCall EXCEPT !.op = "popstate"], Void)
    /\ UNCHANGED <<workspaces, currentWorkspace, calls, nextId, rWorkspaces,
                   rPages, rAttachments, variant, user>>
    /\ UNCHANGED beforeReload
    /\ Track

\* The browser reloads the application where it is: the provider is mounted
\* anew and its mount effect calls fetchWorkspaces.  Requests of the page
\* that was left are abandoned.
Reload ==
    /\ workspaces' = <<>>
    /\ currentWorkspace' = Null
    /\ route' = route
    /\ pendingEffect' = (route.kind \in {"workspace", "page"})
    /\ calls' = IF variant = "items" /\ user = Null THEN <<>>
                ELSE <<Mount(variant)>>
    /\ done' = NoDone
    /\ UNCHANGED <<nextId, rWorkspaces, rPages, rAttachments, variant, user>>
    /\ UNCHANGED lastPath
    /\ beforeReload' = IF beforeReload = NotRecorded THEN beforeReload
                     ELSE workspaces
    /\ Track

-----------------------------------------------------------------------------
\* The state after the provider v was constructed: nothing loaded, the load
\* of its mount effect in flight, an empty store.
Constructed(v, u) ==
    /\ workspaces = <<>>
    /\ currentWorkspace = Null
    /\ route = RootRoute
    /\ pendingEffect = FALSE
    /\ user = u
    /\ calls = IF v = "items" /\ u = Null THEN <<>> ELSE <<Mount(v)>>
    /\ nextId = 1
    /\ done = NoDone
    /\ rWorkspaces = <<>>
    /\ rPages = <<>>
    /\ rAttachments = <<>>
    /\ variant = v
    /\ lastPath = RootRoute
    /\ published = {}

\* The collection before the reload is not recorded
InitWith(v, u) == Constructed(v, u) /\ beforeReload = NotRecorded

\* The collection before the reload is recorded: there was none yet
InitReload == Constructed("pages", User("user-1")) /\ beforeReload = <<>>

\* A user is logged in.
InitOf(v) == InitWith(v, User("user-1"))

Init == InitOf("pages")

\* The pages the application displays, each with its workspace: the editor
\* and the share menu act on one of these.
Pages(ws) ==
    UNION {{<<ws[i].id, p>> : p \in PageIds(ws[i])} : i \in DOMAIN ws}

\* No asynchronous operation is in flight: the user starts an operation
\* when the previous one has finished.
Idle == calls = <<>>

\* The workspaces: their life cycle and the selection
Next ==
    \/ Idle /\ \E name \in Names : createWorkspace(name)
    \/ Idle /\ \E id \in Ids, name \in Names : renameWorkspace(id, name)
    \/ Idle /\ \E id \in Ids : deleteWorkspace(id)
    \/ \E id \in Ids : selectWorkspace(id)
    \/ \E id \in Ids : navigateToWorkspace(id)
    \/ \E id \in Ids : Navigate(WorkspaceRoute(id))
    \/ Navigate(RootRoute)
    \/ Reload
    \/ RouteEffect
    \/ \E i \in 1..MaxCalls :
        \/ supabase(i)
        \/ fetchWorkspacesRows(i)
        \/ fetchWorkspacesChildren(i)
        \/ fetchWorkspacesDone(i)
        \/ createWorkspaceDone(i)
        \/ renameWorkspaceDone(i)
        \/ deleteWorkspaceDone(i)

Spec == Init /\ [][Next]_vars

\* The pages of the workspaces and the selection of a page
NextPages ==
    \/ Idle /\ createWorkspace("A")
    \/ Idle /\ \E w \in Ids : createPage(w, "A")
    \/ Idle /\ \E w \in Ids, p \in Ids : deletePage(w, p)
    \/ \E id \in Ids : navigateToWorkspace(id)
    \/ \E r \in Routes : Navigate(r)
    \/ Reload
    \/ RouteEffect
    \/ \E i \in 1..MaxCalls :
        \/ supabase(i)
        \/ fetchWorkspacesRows(i)
        \/ fetchWorkspacesChildren(i)
        \/ fetchWorkspacesDone(i)
        \/ createWorkspaceDone(i)
        \/ createPageDone(i)
        \/ deletePageDone(i)

SpecPages == Init /\ [][NextPages]_vars

\* The content of the pages and its way through the store
NextEdit ==
    \/ Idle /\ createWorkspace("A")
    \/ Idle /\ \E w \in Ids : createPage(w, "A")
    \/ Idle /\ \E wp \in Pages(workspaces), updates \in Updates :
            updatePage(wp[1], wp[2], updates)
    \/ Reload
    \/ \E i \in 1..MaxCalls :
        \/ supabase(i)
        \/ fetchWorkspacesRows(i)
        \/ fetchWorkspacesChildren(i)
        \/ fetchWorkspacesDone(i)
        \/ createWorkspaceDone(i)
        \/ createPageDone(i)
        \/ updatePageDone(i)

SpecEdit == Init /\ [][NextEdit]_vars

\* The visibility of the pages and the share view
NextShare ==
    \/ Idle /\ createWorkspace("A")
    \/ Idle /\ \E w \in Ids : createPage(w, "A")
    \/ Idle /\ \E wp \in Pages(workspaces), isPublic \in BOOLEAN :
            togglePagePublic(wp[1], wp[2], isPublic)
    \/ Idle /\ \E wp \in Pages(workspaces), imageData \in Urls :
            addAttachment(wp[1], wp[2], imageData, "A")
    \/ \E p \in Ids : fetchPage(p)
    \/ Reload
    \/ \E i \in 1..MaxCalls :
        \/ supabase(i)
        \/ fetchWorkspacesRows(i)
        \/ fetchWorkspacesChildren(i)
        \/ fetchWorkspacesDone(i)
        \/ createWorkspaceDone(i)
        \/ createPageDone(i)
        \/ togglePagePublicDone(i)
        \/ addAttachmentDone(i)

SpecShare == Init /\ [][NextShare]_vars

\* Content items
NextItems ==
    \/ Idle /\ createWorkspace("A")
    \/ \E w \in Ids, item \in ContentItems : addContentItem(w, item)
    \/ Reload
    \/ RouteEffect
    \/ \E i \in 1..MaxCalls :
        \/ supabase(i)
        \/ fetchWorkspacesRows(i)
        \/ fetchWorkspacesChildren(i)
        \/ fetchWorkspacesDone(i)
        \/ createWorkspaceDone(i)
        \/ addContentItemThen(i)
        \/ addContentItemAttachmentThen(i)

SpecItems == Init /\ [][NextItems]_vars

\* Creating pages, in the provider of the application and in the provider
\* of src/unnamed/part_000
InitCreatePage == \E v \in {"pages", "legacy"} : InitOf(v)

NextCreatePage ==
    \/ Idle /\ createWorkspace("A")
    \/ Idle /\ \E w \in Ids, title \in Names : createPage(w, title)
    \/ Idle /\ legacy_createWorkspace("A")
    \/ Idle /\ \E w \in Ids, title \in Names : legacy_createPage(w, title)
    \/ Reload
    \/ \E i \in 1..MaxCalls :
        \/ supabase(i)
        \/ fetchWorkspacesRows(i)
        \/ fetchWorkspacesChildren(i)
        \/ fetchWorkspacesDone(i)
        \/ createWorkspaceDone(i)
        \/ createPageDone(i)
        \/ legacy_fetchWorkspacesRows(i)
        \/ legacy_fetchWorkspacesChildren(i)
        \/ legacy_fetchWorkspacesDone(i)
        \/ legacy_createWorkspaceDone(i)
        \/ legacy_createPageDone(i)

SpecCreatePage == InitCreatePage /\ [][NextCreatePage]_vars

\* Selecting and deleting workspaces, in the provider of the application and
\* in the provider of src/unnamed/part_001
InitSelect == \E v \in {"pages", "items"} : InitOf(v)

NextSelect ==
    \/ Idle /\ createWorkspace("A")
    \/ Idle /\ \E id \in Ids : deleteWorkspace(id)
    \/ \E id \in Ids : selectWorkspace(id)
    \/ \E id \in Ids : navigateToWorkspace(id)
    \/ \E id \in Ids : Navigate(WorkspaceRoute(id))
    \/ Navigate(RootRoute)
    \/ RouteEffect
    \/ Idle /\ items_createWorkspace("A")
    \/ Idle /\ \E id \in Ids : items_deleteWorkspace(id)
    \/ \E id \in Ids : items_selectWorkspace(id)
    \/ Reload
    \/ \E i \in 1..MaxCalls :
        \/ supabase(i)
        \/ fetchWorkspacesRows(i)
        \/ fetchWorkspacesChildren(i)
        \/ fetchWorkspacesDone(i)
        \/ createWorkspaceDone(i)
        \/ deleteWorkspaceDone(i)
        \/ loadWorkspacesRows(i)
        \/ loadWorkspacesDone(i)
        \/ items_insertWorkspace(i)
        \/ items_createWorkspaceDone(i)
        \/ items_deleteWorkspaceDone(i)

SpecSelect == InitSelect /\ [][NextSelect]_vars

\* The identity of the session and the owners of the workspaces, in the
\* provider of the application and in the provider of src/unnamed/part_001
InitIdentity ==
    \E v \in {"pages", "items"}, u \in {Null} \cup {User(uid) : uid \in UserIds} :
        InitWith(v, u)

NextIdentity ==
    \/ Idle /\ createWorkspace("A")
    \/ Idle /\ items_createWorkspace("A")
    \/ items_createWorkspaceRefused("A")
    \/ \E uid \in UserIds : login(uid)
    \/ logout
    \/ Reload
    \/ RouteEffect
    \/ \E i \in 1..MaxCalls :
        \/ supabase(i)
        \/ fetchWorkspacesRows(i)
        \/ fetchWorkspacesChildren(i)
        \/ fetchWorkspacesDone(i)
        \/ createWorkspaceDone(i)
        \/ loadWorkspacesRows(i)
        \/ loadWorkspacesDone(i)
        \/ items_insertWorkspace(i)
        \/ items_createWorkspaceDone(i)

SpecIdentity == InitIdentity /\ [][NextIdentity]_vars

\* Partial<Page> objects that set the visibility, and one that does not
VisibilityUpdates ==
    {[isPublic |-> TRUE], [isPublic |-> FALSE], [title |-> "B"]}

\* The locations that the links of the application lead to: those of the
\* workspaces and of the pages of the collection
Links(ws) ==
    {r \in Routes : /\ r.kind # "root" => r.w \in WorkspaceIds(ws)
                    /\ r.kind = "page" =>
                            \E i \in DOMAIN ws : r.p \in PageIds(ws[i])}

\* The share menus: the visibility of the pages and of the workspaces as the
\* routed pages show it
NextVisibility ==
    \/ Idle /\ createWorkspace("A")
    \/ Idle /\ \E w \in WorkspaceIds(workspaces) : createPage(w, "A")
    \/ \E id \in WorkspaceIds(workspaces) : selectWorkspace(id)
    \/ \E r \in Links(workspaces) : Navigate(r)
    \/ RouteEffect
    \/ Idle /\ \E type \in {"page", "workspace"} : copyShareLink(type)
    \/ Idle /\ WorkspacePage_copyShareLink
    \/ Idle /\ handleSharePage
    \/ Idle /\ \E wp \in Pages(workspaces), isPublic \in BOOLEAN :
            togglePagePublic(wp[1], wp[2], isPublic)
    \/ Idle /\ \E w \in WorkspaceIds(workspaces), isPublic \in BOOLEAN :
            toggleWorkspacePublic(w, isPublic)
    \/ \E i \in 1..MaxCalls :
        \/ supabase(i)
        \/ fetchWorkspacesRows(i)
        \/ fetchWorkspacesChildren(i)
        \/ fetchWorkspacesDone(i)
        \/ createWorkspaceDone(i)
        \/ createPageDone(i)
        \/ togglePagePublicDone(i)
        \/ toggleWorkspacePublicDone(i)

SpecVisibility == Init /\ [][NextVisibility]_vars

\* The visibility flags through the operations of the provider and through
\* a reload of the application
NextPublic ==
    \/ Idle /\ Len(rWorkspaces) < MaxWorkspaces /\ createWorkspace("A")
    \/ Idle /\ Len(rPages) < MaxPages
            /\ \E w \in WorkspaceIds(workspaces) : createPage(w, "A")
    \/ Idle /\ \E w \in WorkspaceIds(workspaces) : renameWorkspace(w, "B")
    \/ Idle /\ \E wp \in Pages(workspaces), updates \in VisibilityUpdates :
            updatePage(wp[1], wp[2], updates)
    \/ \E id \in WorkspaceIds(workspaces) : selectWorkspace(id)
    \/ Idle /\ \E type \in {"page", "workspace"} : copyShareLink(type)
    \/ Idle /\ \E wp \in Pages(workspaces), isPublic \in BOOLEAN :
            togglePagePublic(wp[1], wp[2], isPublic)
    \/ Idle /\ \E w \in WorkspaceIds(workspaces), isPublic \in BOOLEAN :
            toggleWorkspacePublic(w, isPublic)
    \/ RouteEffect
    \/ Idle /\ Reload
    \/ \E i \in 1..MaxCalls :
        \/ supabase(i)
        \/ fetchWorkspacesRows(i)
        \/ fetchWorkspacesChildren(i)
        \/ fetchWorkspacesDone(i)
        \/ createWorkspaceDone(i)
        \/ createPageDone(i)
        \/ renameWorkspaceDone(i)
        \/ updatePageDone(i)
        \/ togglePagePublicDone(i)
        \/ toggleWorkspacePublicDone(i)

SpecPublic == Init /\ [][NextPublic]_vars

\* Edits of a page that overlap: updatePage is called again while the
\* request of an earlier updatePage is in flight
NextOverlap ==
    \/ Idle /\ createWorkspace("A")
    \/ Idle /\ \E w \in WorkspaceIds(workspaces) : createPage(w, "A")
    \/ \E wp \in Pages(workspaces), updates \in VisibilityUpdates :
            updatePage(wp[1], wp[2], updates)
    \/ RouteEffect
    \/ \E i \in 1..MaxCalls :
        \/ supabase(i)
        \/ fetchWorkspacesRows(i)
        \/ fetchWorkspacesChildren(i)
        \/ fetchWorkspacesDone(i)
        \/ createWorkspaceDone(i)
        \/ createPageDone(i)
        \/ updatePageDone(i)

SpecOverlap == Init /\ [][NextOverlap]_vars

\* Creating a workspace: from the dialog, and by a call of createWorkspace
\* whoever makes it, with and without a user
NextCreate ==
    \/ Idle /\ \E name \in DialogNames : handleSubmit(name)
    \/ Idle /\ createWorkspace("A")
    \/ Idle /\ items_createWorkspace("A")
    \/ items_createWorkspaceRefused("A")
    \/ \E uid \in UserIds : login(uid)
    \/ logout
    \/ RouteEffect
    \/ \E i \in 1..MaxCalls :
        \/ supabase(i)
        \/ fetchWorkspacesRows(i)
        \/ fetchWorkspacesChildren(i)
        \/ fetchWorkspacesDone(i)
        \/ createWorkspaceDone(i)
        \/ loadWorkspacesRows(i)
        \/ loadWorkspacesDone(i)
        \/ items_insertWorkspace(i)
        \/ items_createWorkspaceDone(i)

SpecCreate == InitIdentity /\ [][NextCreate]_vars

\* Partial<Page> objects that carry an identifier, and one that does not
IdentifierUpdates == {[id |-> id] : id \in Ids} \cup {[title |-> "B"]}

\* The identifiers of the workspaces, of the pages and of the attachments
\* through the operations that create, change and delete them
NextIdentifiers ==
    \/ Idle /\ createWorkspace("A")
    \/ Idle /\ \E w \in WorkspaceIds(workspaces) : createPage(w, "A")
    \/ Idle /\ \E wp \in Pages(workspaces), updates \in IdentifierUpdates :
            updatePage(wp[1], wp[2], updates)
    \/ Idle /\ \E wp \in Pages(workspaces) : deletePage(wp[1], wp[2])
    \/ Idle /\ \E wp \in Pages(workspaces), imageData \in Urls :
            addAttachment(wp[1], wp[2], imageData, "A")
    \/ Idle /\ \E w \in WorkspaceIds(workspaces) : deleteWorkspace(w)
    \/ RouteEffect
    \/ \E i \in 1..MaxCalls :
        \/ supabase(i)
        \/ fetchWorkspacesRows(i)
        \/ fetchWorkspacesChildren(i)
        \/ fetchWorkspacesDone(i)
        \/ createWorkspaceDone(i)
        \/ createPageDone(i)
        \/ updatePageDone(i)
        \/ deletePageDone(i)
        \/ addAttachmentDone(i)
        \/ deleteWorkspaceDone(i)

SpecIdentifiers == Init /\ [][NextIdentifiers]_vars

\* The steps of the user in the stories about the redirects
UserSteps ==
    \/ Idle /\ createWorkspace("A")
    \/ Idle /\ \E id \in WorkspaceIds(workspaces) : deleteWorkspace(id)
    \/ \E id \in Ids : popstate(WorkspaceRoute(id))
    \/ popstate(RootRoute)

\* The steps of the store and the continuations of the operations
ReplySteps ==
    \E i \in 1..MaxCalls :
        \/ supabase(i)
        \/ fetchWorkspacesRows(i)
        \/ fetchWorkspacesChildren(i)
        \/ fetchWorkspacesDone(i)
        \/ createWorkspaceDone(i)
        \/ deleteWorkspaceDone(i)

\* The effect of the routed page, which runs after RestoreLastPath's
RoutedPageEffect == ~RestorePending /\ RouteEffect

\* The redirects: the locations that the effects of RestoreLastPath and of
\* WorkspacePage lead to
NextRedirect ==
    \/ ~RestorePending /\ UserSteps
    \/ RestoreLastPath
    \/ RoutedPageEffect
    \/ ReplySteps

\* Effects that are pending run, and the store answers every request.
SpecRedirect ==
    /\ Init
    /\ [][NextRedirect]_vars
    /\ WF_vars(RestoreLastPath)
    /\ WF_vars(RoutedPageEffect)
    /\ WF_vars(ReplySteps)

\* Creating workspaces and pages while the load of the mount effect is in
\* flight
NextLoading ==
    \/ createWorkspace("A")
    \/ \E w \in WorkspaceIds(workspaces) : createPage(w, "A")
    \/ Idle /\ Reload
    \/ RouteEffect
    \/ \E i \in 1..MaxCalls :
        \/ supabase(i)
        \/ fetchWorkspacesRows(i)
        \/ fetchWorkspacesChildren(i)
        \/ fetchWorkspacesDone(i)
        \/ createWorkspaceDone(i)
        \/ createPageDone(i)

SpecLoading == Init /\ [][NextLoading]_vars

\* Attachments kept in the row of their page: images added to a page, one
\* while the other is in flight
NextAttach ==
    \/ Idle /\ legacy_createWorkspace("A")
    \/ Idle /\ \E w \in WorkspaceIds(workspaces) : legacy_createPage(w, "A")
    \/ \E wp \in Pages(workspaces), imageData \in Urls, render \in Renders :
            legacy_addAttachment(wp[1], wp[2], imageData, "A", render)
    \/ \E i \in 1..MaxCalls :
        \/ supabase(i)
        \/ legacy_fetchWorkspacesRows(i)
        \/ legacy_fetchWorkspacesChildren(i)
        \/ legacy_fetchWorkspacesDone(i)
        \/ legacy_createWorkspaceDone(i)
        \/ legacy_createPageDone(i)
        \/ legacy_addAttachmentDone(i)

SpecAttach == InitOf("legacy") /\ [][NextAttach]_vars

\* Creating workspaces and pages, and reloading the application
NextReload ==
    \/ Idle /\ createWorkspace("A")
    \/ Idle /\ \E w \in WorkspaceIds(workspaces) : createPage(w, "A")
    \/ Idle /\ Reload
    \/ RouteEffect
    \/ \E i \in 1..MaxCalls :
        \/ supabase(i)
        \/ fetchWorkspacesRows(i)
        \/ fetchWorkspacesChildren(i)
        \/ fetchWorkspacesDone(i)
        \/ createWorkspaceDone(i)
        \/ createPageDone(i)

SpecReload == InitReload /\ [][NextReload]_vars

\* The attachments the application displays, each with its page and its
\* workspace
Attachments(ws) ==
    UNION {UNION {{<<ws[i].id, ws[i].pages[j].id, ws[i].pages[j].attachments[k].id>> :
                        k \in DOMAIN ws[i].pages[j].attachments} :
                  j \in DOMAIN ws[i].pages} : i \in DOMAIN ws}

\* The operations that write to the store after their await, with requests
\* that the store may refuse
NextFailure ==
    \/ Idle /\ createWorkspace("A")
    \/ Idle /\ \E w \in WorkspaceIds(workspaces) : renameWorkspace(w, "B")
    \/ Idle /\ \E w \in WorkspaceIds(workspaces) : deleteWorkspace(w)
    \/ Idle /\ \E w \in WorkspaceIds(workspaces) : createPage(w, "A")
    \/ Idle /\ \E wp \in Pages(workspaces) : deletePage(wp[1], wp[2])
    \/ Idle /\ \E wp \in Pages(workspaces), imageData \in Urls :
            addAttachment(wp[1], wp[2], imageData, "A")
    \/ Idle /\ \E wpa \in Attachments(workspaces) :
            removeAttachment(wpa[1], wpa[2], wpa[3])
    \/ Idle /\ \E wp \in Pages(workspaces) : togglePagePublic(wp[1], wp[2], TRUE)
    \/ Idle /\ \E w \in WorkspaceIds(workspaces) : toggleWorkspacePublic(w, TRUE)
    \/ RouteEffect
    \/ \E i \in 1..MaxCalls :
        \/ supabase(i)
        \/ fetchWorkspacesRows(i)
        \/ fetchWorkspacesChildren(i)
        \/ fetchWorkspacesDone(i)
        \/ createWorkspaceDone(i)
        \/ renameWorkspaceDone(i)
        \/ deleteWorkspaceDone(i)
        \/ createPageDone(i)
        \/ deletePageDone(i)
        \/ addAttachmentDone(i)
        \/ removeAttachmentDone(i)
        \/ togglePagePublicDone(i)
        \/ toggleWorkspacePublicDone(i)

SpecFailure == Init /\ [][NextFailure]_vars

-----------------------------------------------------------------------------
\* Properties

\* Operation op completed in the step that led to this state.
Completes(op) == done.c.op = op

AllPageIds(ws) == UNION {PageIds(ws[i]) : i \in DOMAIN ws}

\* No entity but the row the store got from this call has identifier id.
Fresh(id) ==
    /\ id \notin WorkspaceIds(done.ws) \cup AllPageIds(done.ws) \cup {done.cw.id}
    /\ id \notin {r.id : r \in Range(rPages)}
    /\ Len(Filter(rWorkspaces, LAMBDA r : r.id = id)) <= 1

\* C1: when createWorkspace(name) completes after a successful insert, the
\* collection is the previous one plus one workspace with that name, a fresh
\* identifier and no pages, and that workspace is the current workspace.
C1_CreateWorkspacePost ==
    (Completes("createWorkspace") /\ done.c.ok) =>
        /\ workspaces = Append(done.ws, Workspace(done.c.id, done.c.str))
        /\ Fresh(done.c.id)
        /\ currentWorkspace.id = done.c.id

\* C2: in every reachable state each workspace's currentPageId is unset or is
\* the identifier of a page of that same workspace.
C2_CurrentPageInWorkspace ==
    \A i \in DOMAIN workspaces :
        \/ workspaces[i].currentPageId = NoId
        \/ workspaces[i].currentPageId \in PageIds(workspaces[i])

\* The entry of workspace id in collection ws (Null when there is none)
Entry(ws, id) == getWorkspaceById(ws, id)

\* Page pid is one of the pages of workspace wid in collection ws.
HasPage(ws, wid, pid) ==
    \E i \in DOMAIN ws : ws[i].id = wid /\ pid \in PageIds(ws[i])

\* C3: when deletePage(W, P) completes after a successful delete, P being a
\* page of W: P is not in W's pages; if P was W's selected page, W's
\* currentPageId is the identifier of a page still in W or is unset; and in
\* the case of this in which P was the only page of W, W's pages are empty
\* and its currentPageId is unset.
C3_DeletePagePost ==
    (/\ Completes("deletePage") /\ done.c.ok
     /\ HasPage(done.ws, done.c.wid, done.c.pid)) =>
        LET before == Entry(done.ws, done.c.wid)
            after == Entry(workspaces, done.c.wid)
        IN  /\ done.c.pid \notin PageIds(after)
            /\ PageIds(after) = PageIds(before) \ {done.c.pid}
            /\ before.currentPageId = done.c.pid =>
                    after.currentPageId \in PageIds(after) \cup {NoId}
            /\ PageIds(before) = {done.c.pid} => after.pages = <<>>
            /\ (PageIds(before) = {done.c.pid}
                    /\ before.currentPageId = done.c.pid) =>
                        after.currentPageId = NoId

\* C3's case is reached: the selected and only page of a workspace was
\* deleted.
C3_Witness ==
    /\ Completes("deletePage") /\ done.c.ok
    /\ HasPage(done.ws, done.c.wid, done.c.pid)
    /\ PageIds(Entry(done.ws, done.c.wid)) = {done.c.pid}
    /\ Entry(done.ws, done.c.wid).currentPageId = done.c.pid
    /\ Entry(workspaces, done.c.wid).pages = <<>>

\* The value of field f of a page of the mirror, and the column of the
\* remote table that holds it
Get(page, f) ==
    CASE f = "title" -> page.title
      [] f = "content" -> page.content
      [] f = "isPublic" -> page.isPublic

Column(f) == IF f = "isPublic" THEN "is_public" ELSE f

\* updatePage has just run up to its await.
UpdatePageCalled == Completes("updatePage") /\ done.c.stage = "sent"

\* The page pid of workspace wid in collection ws
PageOf(ws, wid, pid) ==
    Find(Entry(ws, wid).pages, LAMBDA page : page.id = pid, Null)

\* C4: updatePage(w, p, updates) changes only the fields present in updates.
\* In the mirror, page p of w gets the values of updates and keeps every
\* other field, and every other page and workspace is as before; the update
\* object sent to the store has exactly the columns of the fields of updates
\* among title, content and isPublic, with their values.  The continuation
\* changes nothing in the mirror.
C4_UpdatePageFrame ==
    /\ UpdatePageCalled =>
        /\ Len(workspaces) = Len(done.ws)
        /\ \A i \in DOMAIN workspaces :
            /\ workspaces[i].id = done.ws[i].id
            /\ workspaces[i].name = done.ws[i].name
            /\ workspaces[i].currentPageId = done.ws[i].currentPageId
            /\ workspaces[i].isPublic = done.ws[i].isPublic
            /\ Len(workspaces[i].pages) = Len(done.ws[i].pages)
            /\ \A j \in DOMAIN workspaces[i].pages :
                LET before == done.ws[i].pages[j]
                    after == workspaces[i].pages[j]
                IN  IF workspaces[i].id = done.c.wid /\ before.id = done.c.pid
                    THEN /\ after.id = before.id
                         /\ after.attachments = before.attachments
                         /\ \A f \in Fields :
                                Get(after, f) = IF f \in DOMAIN done.c.upd
                                                THEN done.c.upd[f]
                                                ELSE Get(before, f)
                    ELSE after = before
        /\ DOMAIN done.c.data = {Column(f) : f \in DOMAIN done.c.upd}
        /\ \A f \in DOMAIN done.c.upd : done.c.data[Column(f)] = done.c.upd[f]
    /\ (Completes("updatePage") /\ done.c.stage = "replied") =>
            workspaces = done.ws

\* C4's case is reached: a page with a body, made public, was given a new
\* title only, which the store accepted.
C4_Witness ==
    /\ Completes("updatePage") /\ done.c.stage = "replied" /\ done.c.ok
    /\ DOMAIN done.c.upd = {"title"}
    /\ HasPage(workspaces, done.c.wid, done.c.pid)
    /\ PageOf(workspaces, done.c.wid, done.c.pid).content = "hello"
    /\ PageOf(workspaces, done.c.wid, done.c.pid).isPublic
    /\ PageOf(workspaces, done.c.wid, done.c.pid).title = "B"

\* The store holds page pid.
Stored(pid) == \E r \in Range(rPages) : r.id = pid

\* C5: share-view access to a page follows its visibility.  When
\* togglePagePublic(w, p, v) has succeeded on a stored page, a share-view
\* fetch of p that the store answers shows the page if v is true and is
\* denied if v is false; and every share-view fetch shows the page, with its
\* content and attachments, only if the store answered and holds p as
\* public, and otherwise shows no content and no attachments.
C5_ShareFollowsVisibility ==
    /\ (Completes("togglePagePublic") /\ done.c.ok /\ Stored(done.c.pid)) =>
        /\ fetchPageResult(done.c.pid, TRUE, TRUE).kind =
                (IF done.c.flag THEN "page" ELSE "error")
        /\ fetchPageResult(done.c.pid, TRUE, FALSE).kind =
                (IF done.c.flag THEN "page" ELSE "error")
    /\ Completes("fetchPage") =>
        /\ done.val.kind = "page" <=>
                /\ done.c.ok
                /\ \E r \in Range(rPages) : r.id = done.c.pid /\ r.is_public
        /\ done.val.kind = "page" =>
                \E r \in Range(rPages) :
                    r.id = done.c.pid /\ r.content = done.val.content
        /\ done.val.kind = "error" =>
                done.val.content = "" /\ done.val.attachments = <<>>

\* C5's case is reached: a page that was public in the mirror, with an
\* attachment, has been made private, and the share view that would show
\* its content and attachment is denied.
C5_Witness ==
    /\ Completes("togglePagePublic") /\ done.c.ok /\ ~done.c.flag
    /\ Stored(done.c.pid)
    /\ HasPage(done.ws, done.c.wid, done.c.pid)
    /\ PageOf(done.ws, done.c.wid, done.c.pid).isPublic
    /\ PageOf(done.ws, done.c.wid, done.c.pid).attachments # <<>>
    /\ AttachmentsOf(done.c.pid, {}) # <<>>
    /\ fetchPageResult(done.c.pid, TRUE, TRUE) = Denied(done.c.pid)

\* The rows of the pages of workspace wid, newest first
PageRowsOf(wid) == Reverse(Filter(rPages, LAMBDA r : r.workspace_id = wid))

\* C6: round trip through the store.  A successful createWorkspace leaves
\* one workspace row with its identifier and name, a successful createPage
\* one page row with its identifier in that workspace, a successful
\* updatePage that carries a body leaves that body in the row of the page;
\* and a load-all whose queries all succeed makes the mirror the image of
\* the store: one workspace per workspace row with the row's identifier,
\* holding one page per page row of that workspace with the row's identifier
\* and body.
C6_RoundTrip ==
    /\ (Completes("createWorkspace") /\ done.c.ok) =>
            Filter(rWorkspaces, LAMBDA r : r.id = done.c.id)
                = <<[id |-> done.c.id, name |-> done.c.str,
                     user_id |-> HardCodedUserId, is_public |-> FALSE]>>
    /\ (Completes("createPage") /\ done.c.ok) =>
            Filter(rPages, LAMBDA r : r.id = done.c.id)
                = <<[id |-> done.c.id, workspace_id |-> done.c.wid,
                     title |-> done.c.str, content |-> "", is_public |-> FALSE]>>
    /\ (/\ Completes("updatePage") /\ done.c.stage = "replied" /\ done.c.ok
        /\ "content" \in DOMAIN done.c.upd) =>
            \A r \in Range(rPages) :
                r.id = done.c.pid => r.content = done.c.upd["content"]
    /\ (Completes("fetchWorkspaces") /\ done.c.ok /\ done.c.failed = {}) =>
        /\ Len(workspaces) = Len(rWorkspaces)
        /\ \A i \in DOMAIN workspaces :
            LET row == Reverse(rWorkspaces)[i]
                rows == PageRowsOf(row.id)
            IN  /\ workspaces[i].id = row.id
                /\ workspaces[i].name = row.name
                /\ Len(workspaces[i].pages) = Len(rows)
                /\ \A j \in DOMAIN rows :
                    /\ workspaces[i].pages[j].id = rows[j].id
                    /\ workspaces[i].pages[j].content = rows[j].content
                    /\ workspaces[i].pages[j].title = rows[j].title

\* C6's case is reached: load-all has reproduced workspace 1 with its one
\* page 2, whose body is "hello".
C6_Witness ==
    /\ Completes("fetchWorkspaces") /\ done.c.ok /\ done.c.failed = {}
    /\ done.ws = <<>>
    /\ Len(workspaces) = 1
    /\ workspaces[1].id = 1
    /\ Len(workspaces[1].pages) = 1
    /\ workspaces[1].pages[1].id = 2
    /\ workspaces[1].pages[1].content = "hello"

\* C7: renameWorkspace(id, newName) and deleteWorkspace(id) with an id that
\* no workspace of the collection has are no-ops: when they complete, the
\* collection and the current workspace are as before, and the promise
\* resolves.
C7_UnknownIdNoOp ==
    (/\ Completes("renameWorkspace") \/ Completes("deleteWorkspace")
     /\ done.c.wid \notin WorkspaceIds(done.ws)) =>
        /\ workspaces = done.ws
        /\ currentWorkspace = done.cw
        /\ done.val = Void

\* createPage has just completed, in either provider.
CreatePageCompleted ==
    Completes("createPage") \/ Completes("legacy_createPage")

\* C8: createPage(workspaceId, title) on a workspace of the collection
\* resolves with the new, non-empty identifier exactly when the insert
\* succeeded; then the workspace's pages are the previous ones plus one page
\* with that identifier, the title and an empty body, and its currentPageId
\* is that identifier; when the insert failed it resolves with the empty
\* string.
C8_CreatePagePost ==
    (CreatePageCompleted /\ done.c.wid \in WorkspaceIds(done.ws)) =>
        LET before == Entry(done.ws, done.c.wid)
            after == Entry(workspaces, done.c.wid)
        IN  /\ done.c.ok <=> (done.val = Returns(done.c.id) /\ done.c.id # NoId)
            /\ done.c.ok =>
                /\ done.c.id \notin AllPageIds(done.ws)
                /\ Len(after.pages) = Len(before.pages) + 1
                /\ SubSeq(after.pages, 1, Len(before.pages)) = before.pages
                /\ after.pages[Len(after.pages)].id = done.c.id
                /\ after.pages[Len(after.pages)].title = done.c.str
                /\ after.pages[Len(after.pages)].content = ""
                /\ after.currentPageId = done.c.id
            /\ ~done.c.ok => done.val = Returns(NoId)

\* C9: a step of selectWorkspace(id) sets the current workspace to the entry
\* of the collection with that id, or to null when there is none; it changes
\* neither the collection nor the store, and sends no request.
C9_SelectWorkspaceFrame ==
    [][done'.c.op = "selectWorkspace" =>
        /\ currentWorkspace' = Entry(workspaces, done'.c.wid)
        /\ workspaces' = workspaces
        /\ rWorkspaces' = rWorkspaces
        /\ rPages' = rPages
        /\ rAttachments' = rAttachments
        /\ calls' = calls]_vars

\* deleteWorkspace has just completed, in either provider.
DeleteWorkspaceCompleted ==
    Completes("deleteWorkspace") \/ Completes("items_deleteWorkspace")

\* C10: when deleteWorkspace(id) completes after a successful delete, no
\* workspace of the collection has that id; and if that workspace was the
\* current workspace when deleteWorkspace was called (the value the code
\* tests), the current workspace is then null or, in the provider that falls
\* back, the first remaining workspace, and in no case the deleted one.
C10_DeleteWorkspacePost ==
    (DeleteWorkspaceCompleted /\ done.c.ok) =>
        /\ done.c.wid \notin WorkspaceIds(workspaces)
        /\ done.c.clc.id = done.c.wid =>
            /\ \/ currentWorkspace = Null
               \/ /\ variant = "items"
                  /\ workspaces # <<>>
                  /\ currentWorkspace = workspaces[1]
            /\ currentWorkspace.id # done.c.wid

\* C10's case is reached: the current workspace was deleted while another
\* one remained, and the provider fell back to the first remaining one.
C10_Witness ==
    /\ Completes("items_deleteWorkspace") /\ done.c.ok
    /\ done.c.clc.id = done.c.wid
    /\ done.c.wid \in WorkspaceIds(done.ws)
    /\ workspaces # <<>>
    /\ currentWorkspace = workspaces[1]

\* The name the store holds for workspace id is name.
StoredName(id, name) ==
    \A r \in Range(rWorkspaces) : r.id = id => r.name = name

\* C11: when renameWorkspace(id, newName) completes after a successful update,
\* id being a workspace of the collection, that workspace has the name
\* newName in the collection and in the store, and if it is the current
\* workspace, the current-workspace value has the name newName too.
C11_RenameWorkspacePost ==
    (/\ Completes("renameWorkspace") /\ done.c.ok
     /\ done.c.wid \in WorkspaceIds(done.ws)) =>
        /\ Entry(workspaces, done.c.wid).name = done.c.str
        /\ StoredName(done.c.wid, done.c.str)
        /\ currentWorkspace.id = done.c.wid =>
                currentWorkspace.name = done.c.str

\* The owners the store holds for workspace id
Owners(id) == {r.user_id : r \in {x \in Range(rWorkspaces) : x.id = id}}

\* A load-all has completed with the rows of the store, for user u.
LoadedFor(u) ==
    /\ done.c.ok
    /\ u # Null
    /\ \/ Completes("fetchWorkspaces") /\ u = user
       \/ Completes("loadWorkspaces") /\ done.c.stage = "replied"
                                      /\ u = done.c.clu

\* A createWorkspace of user u has completed after a successful insert.
CreatedBy(u) ==
    /\ done.c.ok
    /\ u # Null
    /\ \/ Completes("createWorkspace") /\ u = user
       \/ Completes("items_createWorkspace") /\ done.c.stage = "replied"
                                             /\ u = done.c.clu

\* C12: load-all is scoped to the identity.  When a load-all completes for
\* user u, every workspace of the collection is owned by u in the store; and
\* when a createWorkspace of u completes after a successful insert, the row
\* of the new workspace has owner u.
C12_LoadScopedToUser ==
    \A uid \in UserIds :
        /\ LoadedFor(User(uid)) =>
            \A i \in DOMAIN workspaces : Owners(workspaces[i].id) \subseteq {uid}
        /\ CreatedBy(User(uid)) => Owners(done.c.id) = {uid}

\* loadWorkspaces has just run without a user.
LoadedWithoutUser ==
    Completes("loadWorkspaces") /\ done.c.stage = "none"

IdsOf(seq) == [j \in DOMAIN seq |-> seq[j].id]

C15_AddContentItemPost ==
    (Completes("addContentItem") /\ done.c.wid \in WorkspaceIds(done.ws)) =>
        LET before == Entry(done.ws, done.c.wid)
            after == Entry(workspaces, done.c.wid)
            item == done.c.upd
            page == after.pages[Len(after.pages)]
        IN  /\ Len(after.pages) = Len(before.pages) + 1
            /\ SubSeq(after.pages, 1, Len(before.pages)) = before.pages
            /\ page.id \notin AllPageIds(done.ws)
            /\ page.title = item.title
            /\ item.type = "note" =>
                    page.content = item.content /\ page.attachments = <<>>
            /\ item.type = "image" =>
                    /\ page.content = ""
                    /\ Len(page.attachments) = 1
                    /\ page.attachments[1].url = item.content
            /\ \A i \in DOMAIN workspaces :
                    workspaces[i].id # done.c.wid => workspaces[i] = done.ws[i]
            /\ Len(workspaces) = Len(done.ws)
            /\ done.val = Void
            /\ \E i \in DOMAIN calls :
                    calls[i].op = "addContentItem" /\ calls[i].stage = "sent"

\* C15's case is reached: an image was added to a workspace, which has a
\* new page with the image as its attachment.
C15_Witness ==
    /\ Completes("addContentItem")
    /\ done.c.upd.type = "image"
    /\ ~HasPage(done.ws, done.c.wid, done.c.id)
    /\ HasPage(workspaces, done.c.wid, done.c.id)
    /\ Len(PageOf(workspaces, done.c.wid, done.c.id).attachments) = 1
    /\ PageOf(workspaces, done.c.wid, done.c.id).attachments[1].url = "data:image"

-----------------------------------------------------------------------------
\* The entity (type, wid, pid) is in the collection ws
Known(ws, type, wid, pid) ==
    IF type = "page" THEN getPageById(ws, pid) # Null
    ELSE getWorkspaceById(ws, wid) # Null

\* The visibility flag of a known entity in the collection ws
IsPublicIn(ws, type, wid, pid) ==
    IF type = "page" THEN getPageById(ws, pid).isPublic
    ELSE getWorkspaceById(ws, wid).isPublic

\* The entity has a row in the tables, and that row is public
StoredPublic(workspaceRows, pageRows, type, wid, pid) ==
    IF type = "page"
    THEN \E r \in Range(pageRows) : r.id = pid /\ r.is_public
    ELSE \E r \in Range(workspaceRows) : r.id = wid /\ r.is_public

ShareHandlers ==
    {"copyShareLink", "WorkspacePage_copyShareLink", "handleSharePage"}

\* The step sends one request, which makes the entity public
Publishes(type, wid, pid) ==
    /\ Len(calls') = Len(calls) + 1
    /\ SubSeq(calls', 1, Len(calls)) = calls
    /\ LET request == calls'[Len(calls')] IN
        /\ request.stage = "sent"
        /\ request.flag
        /\ IF type = "page"
           THEN request.op = "togglePagePublic" /\ request.pid = pid
           ELSE request.op = "toggleWorkspacePublic" /\ request.wid = wid

\* A share handler copied the link of a private entity and sent the request
\* that makes it public, or the link of a public entity and sent nothing
CopyPublishesPrivate ==
    done'.c.op \in ShareHandlers
        /\ Known(workspaces, done'.c.str, done'.c.wid, done'.c.pid) =>
            IF IsPublicIn(workspaces, done'.c.str, done'.c.wid, done'.c.pid)
            THEN calls' = calls
            ELSE Publishes(done'.c.str, done'.c.wid, done'.c.pid)

\* A request that makes an entity of the collection public succeeded, and
\* the entity is public in the collection and in the store
PublishedEverywhere ==
    LET type == IF done'.c.op = "togglePagePublic" THEN "page" ELSE "workspace"
    IN  done'.c.op \in {"togglePagePublic", "toggleWorkspacePublic"}
            /\ done'.c.ok /\ done'.c.flag
            /\ Known(workspaces, type, done'.c.wid, done'.c.pid) =>
                /\ IsPublicIn(workspaces', type, done'.c.wid, done'.c.pid)
                /\ StoredPublic(rWorkspaces', rPages', type, done'.c.wid,
                                done'.c.pid)

\* C16: copying the share link of a page or workspace that is private sends
\* the request that makes it public, and once that request has succeeded the
\* entity is public in the collection and in the store; copying the share
\* link of an entity that is public sends no request.
C16_CopyShareLink == [][CopyPublishesPrivate /\ PublishedEverywhere]_vars

-----------------------------------------------------------------------------
\* C17: a page or a workspace whose visibility flag became public in the
\* collection stays public there in every later state in which the
\* collection has it, until a request that makes it private is sent
\* (togglePagePublic or toggleWorkspacePublic with the flag false, updatePage
\* with isPublic false): no other operation makes it private again.
C17_PublicStaysPublic ==
    \A e \in published :
        e \in Entities(workspaces) => e \in PublicEntities(workspaces)

-----------------------------------------------------------------------------
\* The store answers the request of an updatePage with an error
UpdatePageRefused ==
    \E i \in DOMAIN calls :
        /\ calls[i].op = "updatePage" /\ calls[i].stage = "sent"
        /\ Len(calls') = Len(calls)
        /\ calls'[i].stage = "replied" /\ ~calls'[i].ok

\* updatePage completes after its request failed
UpdatePageFailed(d) ==
    d.c.op = "updatePage" /\ d.c.stage = "replied" /\ ~d.c.ok

\* C18: when the remote update of updatePage fails, the rows of the store
\* stay as they were, the promise of updatePage resolves (with nothing, no
\* exception), and the page has in the collection the values of the update
\* that was applied before the request: nothing is rolled back.
C18_UpdatePageFailure ==
    [][/\ UpdatePageRefused => UNCHANGED <<rPages, workspaces>>
       /\ UpdatePageFailed(done') =>
            /\ done'.val = Void
            /\ UNCHANGED <<rPages, workspaces>>
            /\ HasPage(workspaces, done'.c.wid, done'.c.pid) =>
                    \A f \in DOMAIN done'.c.upd :
                        Get(PageOf(workspaces', done'.c.wid, done'.c.pid), f)
                            = done'.c.upd[f]]_vars

\* C18's case is reached: an updatePage that changed the title of a page has
\* completed after its request failed, and the store has the old title.
C18_Witness ==
    /\ UpdatePageFailed(done)
    /\ HasPage(workspaces, done.c.wid, done.c.pid)
    /\ "title" \in DOMAIN done.c.upd
    /\ PageOf(workspaces, done.c.wid, done.c.pid).title = "B"
    /\ \E r \in Range(rPages) : r.id = done.c.pid /\ r.title = "A"

-----------------------------------------------------------------------------
\* updatePage completed after its request succeeded
UpdatePageSucceeded(d) ==
    d.c.op = "updatePage" /\ d.c.stage = "replied" /\ d.c.ok

\* The value of field f in the row of page pid
StoredField(rows, pid, f) ==
    LET r == CHOOSE r \in Range(rows) : r.id = pid
    IN  CASE f = "title" -> r.title
          [] f = "content" -> r.content
          [] f = "isPublic" -> r.is_public

\* C19: two updatePage calls on the same page overlapped (the second was in
\* flight when the first completed), both remote updates succeeded and now
\* the second completes too: the fields that the two calls wrote have in the
\* collection the values they have in the store.
C19_OverlappingUpdates ==
    [][UpdatePageSucceeded(done) /\ UpdatePageSucceeded(done')
            /\ Len(calls) = 1 /\ calls' = <<>>
            /\ done'.c.pid = done.c.pid /\ done'.c.wid = done.c.wid
            /\ HasPage(workspaces', done.c.wid, done.c.pid)
            /\ (\E r \in Range(rPages') : r.id = done.c.pid) =>
        \A f \in DOMAIN done.c.upd \cup DOMAIN done'.c.upd :
            Get(PageOf(workspaces', done.c.wid, done.c.pid), f)
                = StoredField(rPages', done.c.pid, f)]_vars

-----------------------------------------------------------------------------
\* The step sends the request of a create workspace
CreateSent ==
    /\ Len(calls') = Len(calls) + 1
    /\ calls'[Len(calls')].op \in {"createWorkspace", "items_createWorkspace"}

\* The dialog or the provider refused the create workspace of this step
CreateRefused ==
    /\ done'.c.op \in {"handleSubmit", "items_createWorkspace"}
    /\ done'.c.stage = "refused"

\* The precondition of create workspace fails
PreconditionFails(name) == trim(name) = "" \/ user = Null

\* C20: a create workspace whose precondition fails (the name is empty once
\* trimmed, or there is no user) sends no request, and the create workspace
\* that is refused leaves the requests in flight, the collection and the
\* current workspace as they are.
C20_CreatePrecondition ==
    [][/\ CreateSent => ~PreconditionFails(calls'[Len(calls')].str)
       /\ CreateRefused =>
            /\ calls' = calls
            /\ UNCHANGED <<workspaces, currentWorkspace>>]_vars

-----------------------------------------------------------------------------
\* The identifiers of the attachments of the collection ws
AllAttachmentIds(ws) ==
    UNION {UNION {{ws[i].pages[j].attachments[k].id :
                        k \in DOMAIN ws[i].pages[j].attachments} :
                  j \in DOMAIN ws[i].pages} : i \in DOMAIN ws}

\* The identifiers in use, in the collection and in the store
IdsInUse(ws, workspaceRows, pageRows, attachmentRows) ==
    WorkspaceIds(ws) \cup AllPageIds(ws) \cup AllAttachmentIds(ws)
        \cup {r.id : r \in Range(workspaceRows)}
        \cup {r.id : r \in Range(pageRows)}
        \cup {r.id : r \in Range(attachmentRows)}

\* The sequence of identifiers `new` is `old`, or `old` with one identifier
\* appended or one removed
SameButOne(old, new) ==
    \/ new = old
    \/ \E id \in Ids : new = Append(old, id)
    \/ \E id \in Ids : new = Filter(old, LAMBDA x : x # id)

\* The step keeps the identifier of every workspace, page and attachment
\* that it keeps
IdentifiersKept ==
    /\ SameButOne(IdsOf(workspaces), IdsOf(workspaces'))
    /\ \A i \in DOMAIN workspaces, k \in DOMAIN workspaces' :
        workspaces[i].id = workspaces'[k].id =>
            /\ SameButOne(IdsOf(workspaces[i].pages), IdsOf(workspaces'[k].pages))
            /\ \A j \in DOMAIN workspaces[i].pages \cap DOMAIN workspaces'[k].pages :
                Len(workspaces[i].pages) = Len(workspaces'[k].pages) =>
                    SameButOne(IdsOf(workspaces[i].pages[j].attachments),
                               IdsOf(workspaces'[k].pages[j].attachments))

\* C21: identifiers are assigned at creation and never reused or mutated.  A
\* step of any operation but the load-all, which replaces the collection,
\* keeps the identifier of every workspace, page and attachment that it
\* keeps; every identifier in use was generated; and the identifier that a
\* step generates is the identifier of no entity of the collection or of the
\* store.
C21_IdentifiersStable ==
    [][/\ done'.c.op # "fetchWorkspaces" => IdentifiersKept
       /\ IdsInUse(workspaces', rWorkspaces', rPages', rAttachments')
                \subseteq 1..(nextId' - 1)
       /\ nextId' # nextId =>
            nextId \notin IdsInUse(workspaces, rWorkspaces, rPages, rAttachments)]_vars

-----------------------------------------------------------------------------
\* The provider is at rest: no operation is in flight and the effects of the
\* last render have run
AtRest == Idle /\ ~pendingEffect

\* C22: whenever no operation is in flight, the current workspace is null or
\* is identical (name, visibility, pages with their attachments and
\* currentPageId) to the entry of the collection with its id.
C22_CurrentWorkspaceInSync ==
    (AtRest /\ currentWorkspace # Null) =>
        currentWorkspace = Entry(workspaces, currentWorkspace.id)

-----------------------------------------------------------------------------
\* An effect changes the location
Redirected == (RestoreLastPath \/ RoutedPageEffect) /\ route' # route

\* C23: once the user takes no more steps, the route changes stop: after the
\* deletion of the current workspace, or after a workspace route was opened
\* for an id that is not in the collection, the redirect of WorkspacePage to
\* '/' and the redirect of RestoreLastPath from '/' to the stored path do not
\* alternate forever.
C23_RedirectsStop ==
    <>[][~UserSteps]_vars => <>[][~Redirected]_vars

-----------------------------------------------------------------------------
\* A load-all has completed that was started for an identity which is not
\* the identity of the session any more
StaleLoadCompleted ==
    /\ Completes("loadWorkspaces")
    /\ done.c.stage = "replied"
    /\ done.c.clu # user

\* C24: the collection reflects the current identity only.  When a load-all
\* completes that was started for an earlier identity, the collection and
\* the current workspace are as they were before it completed; and when a
\* load-all has run or completed in a session without a user, the collection
\* is empty and the current workspace is null.
C24_StaleLoadIgnored ==
    /\ StaleLoadCompleted =>
            workspaces = done.ws /\ currentWorkspace = done.cw
    /\ (Completes("loadWorkspaces") /\ user = Null) =>
            workspaces = <<>> /\ currentWorkspace = Null

-----------------------------------------------------------------------------
\* C25: when deleteWorkspace(id) completes after a successful delete, the
\* current workspace is not the deleted workspace, whatever was selected
\* while the delete was in flight; and once the provider is at rest the
\* current workspace is null or has the id of a workspace of the collection.
C25_DeletedNeverCurrent ==
    /\ (DeleteWorkspaceCompleted /\ done.c.ok) =>
            currentWorkspace.id # done.c.wid
    /\ (AtRest /\ currentWorkspace # Null) =>
            currentWorkspace.id \in WorkspaceIds(workspaces)

-----------------------------------------------------------------------------
\* C26: a workspace or a page that was created while the load-all of the
\* mount effect was in flight is in the collection once both have completed:
\* when the load completes with every query answered, the collection it
\* replaces held only what was created during the load, and everything it
\* held is in the collection that the load puts in its place.
C26_LoadKeepsCreated ==
    (Completes("fetchWorkspaces") /\ done.c.ok /\ done.c.failed = {}) =>
        /\ WorkspaceIds(done.ws) \subseteq WorkspaceIds(workspaces)
        /\ AllPageIds(done.ws) \subseteq AllPageIds(workspaces)

-----------------------------------------------------------------------------
\* addAttachment of the provider of src/unnamed/part_000 completed after its
\* update succeeded
AttachmentStored(d) ==
    d.c.op = "legacy_addAttachment" /\ d.c.stage = "replied" /\ d.c.ok

\* The identifiers of the attachments in the row of page pid
StoredAttachmentIds(rows, pid) ==
    UNION {Range(IdsOf(JSONparse(r.attachments))) :
                r \in {x \in Range(rows) : x.id = pid}}

\* C27: two addAttachment calls on the same page overlapped (the second was
\* in flight when the first completed), both remote updates succeeded and
\* now the second completes too: the attachment list in the row of the page
\* has every attachment that the page has in the collection.
C27_OverlappingAttachments ==
    [][AttachmentStored(done) /\ AttachmentStored(done')
            /\ Len(calls) = 1 /\ calls' = <<>>
            /\ done'.c.pid = done.c.pid /\ done'.c.wid = done.c.wid =>
        Range(IdsOf(currentAttachments(workspaces', done.c.wid, done.c.pid)))
            \subseteq StoredAttachmentIds(rPages', done.c.pid)]_vars

-----------------------------------------------------------------------------
\* The operations that update the collection after the reply of the store
AwaitingOps ==
    {"createWorkspace", "renameWorkspace", "deleteWorkspace", "createPage",
     "deletePage", "addAttachment", "removeAttachment", "togglePagePublic",
     "toggleWorkspacePublic"}

\* The step calls one of these operations
AwaitingOpCalled ==
    /\ Len(calls') = Len(calls) + 1
    /\ calls'[Len(calls')].op \in AwaitingOps

\* The store answers the request of one of these operations with an error
AwaitingOpRefused ==
    \E i \in DOMAIN calls :
        /\ calls[i].op \in AwaitingOps /\ calls[i].stage = "sent"
        /\ Len(calls') = Len(calls)
        /\ calls'[i].stage = "replied" /\ ~calls'[i].ok

\* One of these operations completes after its request failed
AwaitingOpFailed(d) ==
    d.c.op \in AwaitingOps /\ d.c.stage = "replied" /\ ~d.c.ok

-----------------------------------------------------------------------------
\* The step issues the insert of the attachment of an image content item,
\* in the `then` of call i
AttachmentInsertIssued(i) ==
    /\ i \in DOMAIN calls /\ i \in DOMAIN calls'
    /\ calls[i].op = "addContentItem" /\ calls[i].stage = "replied"
    /\ calls'[i].op = "addContentItemAttachment" /\ calls'[i].stage = "sent"

\* C29: for an image content item, addContentItem issues the insert of the
\* attachment only after the insert of the page has completed without
\* error: when the insert of the page returned an error, no insert of an
\* attachment is issued.
C29_AttachmentAfterPage ==
    [][\A i \in 1..MaxCalls : AttachmentInsertIssued(i) => calls[i].ok]_vars

-----------------------------------------------------------------------------
\* The position of the identifier id in the sequence ids
Position(ids, id) == CHOOSE j \in DOMAIN ids : ids[j] = id

\* The identifiers that both sequences hold are in the same relative order
SameOrder(s, t) ==
    \A a, b \in {s[j] : j \in DOMAIN s} \cap {t[j] : j \in DOMAIN t} :
        (Position(s, a) < Position(s, b)) <=> (Position(t, a) < Position(t, b))

\* The workspaces of both collections are in the same relative order, and
\* so are the pages of each workspace that both hold
OrderKept(old, new) ==
    /\ SameOrder(IdsOf(old), IdsOf(new))
    /\ \A i \in DOMAIN old, j \in DOMAIN new :
            old[i].id = new[j].id =>
                SameOrder(IdsOf(old[i].pages), IdsOf(new[j].pages))

\* C30: when the load-all of a reload completes, the workspaces of the
\* collection and the pages of each workspace are in the same relative
\* order as they were in the collection before the reload.
C30_ReloadKeepsOrder ==
    (Completes("fetchWorkspaces") /\ done.c.ok /\ beforeReload # NotRecorded) =>
        OrderKept(beforeReload, workspaces)

====
